---- MODULE Spec2Model ----
(***************************************************************************)
(* AgentScope workstation: the workflow graph builder (build_dag,          *)
(* ASDiGraph.add_as_node) and the execution engine (ASDiGraph.run,         *)
(* ASDiGraph.exec_node) of src/agentscope/web/workstation/workflow_dag.py, *)
(* with the node operators of workflow_node.py.                            *)
(*                                                                         *)
(* A behaviour is one call of start_workflow(config): build_dag(config)    *)
(* followed by dag.run().  One action is one call of build_dag, the        *)
(* prologue of run, or one iteration of run's while loop.  EvalSpec is one *)
(* call of eval_condition_operator (studio/tools/condition_operator.py).   *)
(***************************************************************************)
EXTENDS Integers, Sequences, FiniteSets, TLC

VARIABLES
    config,        \* the configuration document handed to build_dag
    pc,            \* "load" | "config" | "built" | "build_error" | "rebuilt" | "running" | "done" | "run_error"
    dag,           \* the ASDiGraph build_dag returned (nodes, opt, pred, adj, nodes_not_in_graph)
    node_queue,    \* run: the deque of node ids
    visited,       \* run: the set of visited node ids
    values,        \* run: node id -> cached output (only for visited ids)
    heap,          \* the Msg objects alive: object id -> [src, content, branch]
    calls,         \* every operator __call__ and predicate evaluation so far: <<[node, by, x, key, scope]>>
    err,           \* the exception build_dag or run ended with ("" when none)
    taken,         \* run: IF/ELSE node id -> the branch_true the engine read
    last,          \* what the last loop iteration of run did
    built,         \* build_dag: the constructor calls in order: <<[node, dep_opts, not_in_graph]>>
    err_node,      \* the node id the exception's message names (0 when it names none)
    ev,            \* one call of eval_condition_operator: its arguments and its outcome
    audience,      \* agent node id -> the announcement scope the agent is attached to
    cfg_obj,       \* the config object in memory: the document, as the calls of build_dag left it
    rebuilt,       \* a second call of build_dag on the same config object: its outcome
    raw_info       \* one node record handed to sanitize_node_data: its data.args and data.source

vars ==
    <<config, pc, dag, node_queue, visited, values, heap, calls, err, taken,
      last, built, err_node, ev, audience, cfg_obj, rebuilt, raw_info>>

----------------------------------------------------------------------------
(* Bounds of the model.                                                    *)

\* Connections added to a skeleton configuration, beyond those it declares.
MaxExtra == 2

\* Case labels a SwitchPipeline node declares.
MaxCases == 2

\* Length of the strings eval_condition_operator is called with.
MaxStrLen == 2

\* The number of keys data.args has at most when sanitize_node_data is called
\* on its own.
MaxArgs == 3

\* The largest max_loop a ForLoopPipeline node is configured with, and the
\* number of successive replies the world outside decides for one invocation.
MaxLoop == 2

\* Node ids of a configuration document (keys "1".."5", in document order).
NodeIds == 1..5

\* An id that connections may name although no node record has it.
GhostId == 1 + CHOOSE n \in NodeIds : \A m \in NodeIds : m <= n

\* Every id a graph may hold.
AllIds == NodeIds \cup {GhostId}


----------------------------------------------------------------------------
(* Python values.                                                          *)

\* None, a reference to a Msg object of the heap, or a list of values.
PyNone == [k |-> "none", ref |-> 0, items |-> <<>>]

PyObj(r) == [k |-> "obj", ref |-> r, items |-> <<>>]

PyList(s) == [k |-> "list", ref |-> 0, items |-> s]

Range(s) == { s[i] : i \in 1..Len(s) }

\* s with x appended unless already there (insertion-ordered dict keys).
AddKey(s, x) == IF x \in Range(s) THEN s ELSE Append(s, x)

----------------------------------------------------------------------------
(* Message contents: a string is a sequence of characters, None is apart.  *)

StrVal(s) == [null |-> FALSE, s |-> s]

NoneVal == [null |-> TRUE, s |-> <<>>]

\* Contents an agent may reply with: "" and "a".
ReplyContents == { StrVal(<<>>), StrVal(<<"a">>) }

\* Python's `t in s` for two strings.
IsSubstring(t, s) ==
    \E i \in 0..(Len(s) - Len(t)) : \A j \in 1..Len(t) : s[i + j] = t[j]

StartsWith(s, t) ==
    Len(t) <= Len(s) /\ \A j \in 1..Len(t) : s[j] = t[j]

EndsWith(s, t) ==
    Len(t) <= Len(s) /\ \A j \in 1..Len(t) : s[Len(s) - Len(t) + j] = t[j]

\* The ten operator names of eval_condition_operator.
ConditionOperators ==
    { "contains", "not contains", "start with", "end with", "equals",
      "not equals", "is empty", "is not empty", "is null", "is not null" }

\* What eval_condition_operator may get as actual_value: a Msg (a dict, with
\* or without the key "content"), or a plain string or None.
MsgValue(has_content, content) ==
    [msg |-> TRUE, has_content |-> has_content, content |-> content]

PlainValue(content) ==
    [msg |-> FALSE, has_content |-> FALSE, content |-> content]

\* if isinstance(actual_value, Msg): actual_value.get('content', '')
ExtractContent(actual_value) ==
    IF actual_value.msg
    THEN IF actual_value.has_content THEN actual_value.content
         ELSE StrVal(<<>>)
    ELSE actual_value.content

\* `not actual_value`: None and the empty string are falsy.
Falsy(a) == a.null \/ a.s = <<>>

\* A variant of IsNone: the test is falsiness.
IsNone_Falsy(a) == a.null \/ a.s = <<>>

\* `actual_value is None`
IsNone(a) == a.null

\* A variant of UnknownOperator: an unknown operator evaluates to False.
UnknownOperator_False(operator) == "False"

\* The else branch: raise ValueError(f"Invalid condition operator: ...").
UnknownOperator(operator) == "ValueError"

\* eval_condition_operator(actual_value, operator, target_value): "True",
\* "False", or the exception the Python expression raises (`in` with None on
\* either side is a TypeError, None has no startswith or endswith, a string's
\* startswith(None) is a TypeError, an unknown operator is a ValueError).
eval_condition_operator(actual_value, operator, target_value) ==
    LET a == ExtractContent(actual_value)
        t == target_value
        B(b) == IF b THEN "True" ELSE "False"
    IN  CASE operator = "contains" ->
                IF a.null \/ t.null THEN "TypeError"
                ELSE B(IsSubstring(t.s, a.s))
          [] operator = "not contains" ->
                IF a.null \/ t.null THEN "TypeError"
                ELSE B(~IsSubstring(t.s, a.s))
          [] operator = "start with" ->
                IF a.null THEN "AttributeError"
                ELSE IF t.null THEN "TypeError"
                ELSE B(StartsWith(a.s, t.s))
          [] operator = "end with" ->
                IF a.null THEN "AttributeError"
                ELSE IF t.null THEN "TypeError"
                ELSE B(EndsWith(a.s, t.s))
          [] operator = "equals" -> B(a = t)
          [] operator = "not equals" -> B(a # t)
          [] operator = "is empty" -> B(Falsy(a))
          [] operator = "is not empty" -> B(~Falsy(a))
          [] operator = "is null" -> B(IsNone(a))
          [] operator = "is not null" -> B(~IsNone(a))
          [] OTHER -> UnknownOperator(operator)

----------------------------------------------------------------------------
(* The node registry.                                                      *)

\* NODE_NAME_MAPPING with each class's node_type.
NODE_NAME_MAPPING ==
    [ n \in { "start", "dashscope_chat", "openai_chat", "post_api_chat",
              "post_api_dall_e", "dashscope_image_synthesis", "Message",
              "DialogAgent", "UserAgent", "TextToImageAgent",
              "DictDialogAgent", "ReActAgent", "Placeholder", "MsgHub",
              "SequentialPipeline", "ForLoopPipeline", "WhileLoopPipeline",
              "IfElsePipeline", "SwitchPipeline", "CopyNode",
              "BingSearchService", "GoogleSearchService", "PythonService",
              "ReadTextService", "WriteTextService", "Post",
              "TextToAudioService", "TextToImageService", "ImageComposition",
              "IF/ELSE", "Code", "ImageMotion", "VideoComposition" } |->
        CASE n = "start" -> "START"
          [] n \in { "dashscope_chat", "openai_chat", "post_api_chat",
                     "post_api_dall_e", "dashscope_image_synthesis" } -> "MODEL"
          [] n = "Message" -> "MESSAGE"
          [] n \in { "DialogAgent", "UserAgent", "TextToImageAgent",
                     "DictDialogAgent", "ReActAgent" } -> "AGENT"
          [] n \in { "Placeholder", "MsgHub", "SequentialPipeline",
                     "ForLoopPipeline", "WhileLoopPipeline", "IfElsePipeline",
                     "SwitchPipeline" } -> "PIPELINE"
          [] n = "CopyNode" -> "COPY"
          [] n \in { "BingSearchService", "GoogleSearchService",
                     "PythonService", "ReadTextService", "WriteTextService",
                     "TextToAudioService", "TextToImageService" } -> "SERVICE"
          [] n = "IF/ELSE" -> "IFELSE"
          [] OTHER -> "TOOL" ]

----------------------------------------------------------------------------
(* Configuration documents.                                                *)

\* One connection of an input port: the source node and the source's output
\* port ({"node": ..., "input": "output_1"} in the document).
Conn(node, port) == [node |-> node, port |-> port]

\* data.args, as far as the operators modelled read it: condition_op and
\* target_value (IF/ELSE, IfElsePipeline, ForLoopPipeline), content
\* (Message), cases (SwitchPipeline), max_loop (ForLoopPipeline), whether
\* data.args has the key "cases", and whether data.source has it.  A key
\* condition_op or target_value that is absent reads as the empty string.
Args(condition_op, target_value, content) ==
    [condition_op |-> condition_op, target_value |-> target_value,
     content |-> content, cases |-> <<>>, has_cases |-> TRUE,
     source_cases |-> TRUE, max_loop |-> 0]

NoArgs == Args("", StrVal(<<>>), StrVal(<<>>))

\* data.args of a SwitchPipeline node: the declared case labels.
SwitchArgs(cases, source_cases) ==
    [NoArgs EXCEPT !.cases = cases, !.source_cases = source_cases]

\* data.args of a ForLoopPipeline or IfElsePipeline node.
LoopArgs(condition_op, target_value, max_loop) ==
    [Args(condition_op, target_value, StrVal(<<>>)) EXCEPT
        !.max_loop = max_loop]

\* A node record: name, inputs (the connections of all input ports, in
\* document order), data.elements, data.args; outputs is filled in below.
NodeRec(name, inputs, elements, args) ==
    [name |-> name, inputs |-> inputs, elements |-> elements, args |-> args,
     outputs |-> [p \in {} |-> <<>>]]

From(n) == Conn(n, "output_1")

\* The output ports a node of this name has in the editor.
PortsOf(name) ==
    IF name = "IF/ELSE" THEN {"output_1", "output_2"} ELSE {"output_1"}

\* Flatten: the ids m (document order) whose inputs name (n, port), once per
\* connection.
RECURSIVE ConnsFrom(_, _, _, _)
ConnsFrom(cfg, n, port, ids) ==
    IF ids = <<>> THEN <<>>
    ELSE LET m == Head(ids)
             here == SelectSeq(cfg[m].inputs, LAMBDA c : c = Conn(n, port))
         IN  [i \in 1..Len(here) |-> m] \o ConnsFrom(cfg, n, port, Tail(ids))

\* The ids of a set of naturals in ascending order.
RECURSIVE SortedIds(_)
SortedIds(S) ==
    IF S = {} THEN <<>>
    ELSE LET m == CHOOSE x \in S : \A y \in S : x <= y
         IN  <<m>> \o SortedIds(S \ {m})

\* The editor keeps outputs the mirror of inputs: port p of node n lists the
\* nodes whose inputs name (n, p).
MirrorOutputs(cfg) ==
    [n \in DOMAIN cfg |->
        [cfg[n] EXCEPT !.outputs =
            [p \in PortsOf(cfg[n].name) |->
                ConnsFrom(cfg, n, p, SortedIds(DOMAIN cfg))]]]

Agent == NodeRec("DialogAgent", <<>>, <<>>, NoArgs)

AgentAfter(ins) == NodeRec("DialogAgent", ins, <<>>, NoArgs)

StartRec == NodeRec("start", <<>>, <<>>, NoArgs)

\* The skeleton configurations: the documents the editor's examples and the
\* engine's cases are variations of.
Skeletons ==
    { \* a Start node and three unconnected agents
      <<StartRec, Agent, Agent, Agent>>,
      \* Start -> Agent -> Message
      <<StartRec, AgentAfter(<<From(1)>>),
        NodeRec("Message", <<From(2)>>, <<>>,
                Args("", StrVal(<<>>), StrVal(<<"a">>)))>>,
      \* a join: node 2 waits for 3 and 1, declared in that order
      <<StartRec, AgentAfter(<<From(3), From(1)>>), AgentAfter(<<From(1)>>)>>,
      \* Start -> Agent -> IF/ELSE, true branch to 4, false branch to 5
      <<StartRec, AgentAfter(<<From(1)>>),
        NodeRec("IF/ELSE", <<From(2)>>, <<>>,
                Args("equals", StrVal(<<"a">>), StrVal(<<>>))),
        AgentAfter(<<Conn(3, "output_1")>>),
        AgentAfter(<<Conn(3, "output_2")>>)>>,
      \* a Message with no content into an IF/ELSE that tests containment
      <<StartRec,
        NodeRec("Message", <<From(1)>>, <<>>, Args("", StrVal(<<>>), NoneVal)),
        NodeRec("IF/ELSE", <<From(2)>>, <<>>,
                Args("contains", StrVal(<<"a">>), StrVal(<<>>))),
        AgentAfter(<<Conn(3, "output_1")>>)>>,
      \* Start -> SequentialPipeline grouping agents 3 and 4
      <<StartRec,
        NodeRec("SequentialPipeline", <<From(1)>>, <<3, 4>>, NoArgs),
        Agent, Agent>>,
      \* a grouped agent that also has a connection from Start
      <<StartRec, AgentAfter(<<From(1)>>),
        NodeRec("SequentialPipeline", <<From(2)>>, <<2>>, NoArgs)>>,
      \* a model node, declared after the agent that uses it
      <<StartRec, AgentAfter(<<From(1)>>),
        NodeRec("dashscope_chat", <<>>, <<>>, NoArgs)>>,
      \* a model node, declared between the Start node and the agent
      <<StartRec, NodeRec("openai_chat", <<>>, <<>>, NoArgs),
        AgentAfter(<<From(1)>>)>>,
      \* no Start node
      <<Agent, AgentAfter(<<From(1)>>)>>,
      \* Start -> Agent -> Copy of that agent
      <<StartRec, AgentAfter(<<From(1)>>),
        NodeRec("CopyNode", <<From(2)>>, <<2>>, NoArgs)>>,
      \* Start -> Code
      <<StartRec, NodeRec("Code", <<From(1)>>, <<>>, NoArgs)>>,
      \* two pipelines grouping the same agent, one of them twice
      <<StartRec,
        NodeRec("SequentialPipeline", <<From(1)>>, <<4, 5, 4>>, NoArgs),
        NodeRec("SequentialPipeline", <<From(2)>>, <<4>>, NoArgs),
        Agent, Agent>>,
      \* Start -> Agent -> Copy -> Copy, both copies of the agent
      <<StartRec, AgentAfter(<<From(1)>>),
        NodeRec("CopyNode", <<From(2)>>, <<2>>, NoArgs),
        NodeRec("CopyNode", <<From(3)>>, <<2>>, NoArgs)>>,
      \* Start -> Message -> Copy -> Copy, both copies of the message
      <<StartRec,
        NodeRec("Message", <<From(1)>>, <<>>,
                Args("", StrVal(<<>>), StrVal(<<"a">>))),
        NodeRec("CopyNode", <<From(2)>>, <<2>>, NoArgs),
        NodeRec("CopyNode", <<From(3)>>, <<2>>, NoArgs)>> }

\* The sequences over S of length at most k.
RECURSIVE SeqsUpTo(_, _)
SeqsUpTo(S, k) ==
    IF k = 0 THEN { <<>> }
    ELSE LET shorter == SeqsUpTo(S, k - 1)
         IN  shorter \cup { Append(q, x) : q \in shorter, x \in S }

\* The case labels configurations declare, and the case keys a Switch
\* node's key extractor may compute: the labels and one that none declares.
CaseLabels == {"a", "b"}

CaseKeys == CaseLabels \cup {"z"}

\* Start -> SwitchPipeline over the agents 3, 4, 5: every number of case
\* labels up to MaxCases (a label may be declared twice) with every number of
\* dependencies up to two more than that.
SwitchSkeletons ==
    { <<StartRec,
        NodeRec("SwitchPipeline", <<From(1)>>,
                [i \in 1..k |-> 3 + ((i - 1) % 3)], SwitchArgs(cases, sc)),
        Agent, Agent, Agent>> :
        k \in 0..(MaxCases + 2), cases \in SeqsUpTo(CaseLabels, MaxCases),
        sc \in BOOLEAN }

\* Start -> ForLoopPipeline over the agent 3: every max_loop up to MaxLoop
\* and each reply content as the target of the break predicate `equals`.
ForLoopSkeletons ==
    { <<StartRec,
        NodeRec("ForLoopPipeline", <<From(1)>>, <<3>>,
                LoopArgs("equals", t, m)),
        Agent>> : t \in ReplyContents, m \in 0..MaxLoop }

\* Configurations with a MsgHub node over a SequentialPipeline: two agents; an
\* agent listed twice and through a CopyNode; a CopyNode of a CopyNode; a
\* pipeline nested in the pipeline.  The last two have no Start node.
MsgHubSkeletons ==
    { <<StartRec, NodeRec("MsgHub", <<From(1)>>, <<3>>, NoArgs),
        NodeRec("SequentialPipeline", <<>>, <<4, 5>>, NoArgs), Agent, Agent>>,
      <<StartRec, NodeRec("MsgHub", <<From(1)>>, <<3>>, NoArgs),
        NodeRec("SequentialPipeline", <<>>, <<4, 5, 4>>, NoArgs), Agent,
        NodeRec("CopyNode", <<>>, <<4>>, NoArgs)>>,
      <<NodeRec("MsgHub", <<>>, <<2>>, NoArgs),
        NodeRec("SequentialPipeline", <<>>, <<3, 5>>, NoArgs), Agent,
        NodeRec("CopyNode", <<>>, <<3>>, NoArgs),
        NodeRec("CopyNode", <<>>, <<4>>, NoArgs)>>,
      <<NodeRec("MsgHub", <<>>, <<2>>, NoArgs),
        NodeRec("SequentialPipeline", <<>>, <<3, 4, 5>>, NoArgs), Agent,
        NodeRec("SequentialPipeline", <<>>, <<5, 3>>, NoArgs), Agent>> }

\* Start -> Agent -> IfElsePipeline over the agents 4 and 5, or over 4 alone:
\* the predicate `equals` with each reply content as target, and a node
\* without condition_op.
IfElsePipelineSkeletons ==
    { <<StartRec, AgentAfter(<<From(1)>>),
        NodeRec("IfElsePipeline", <<From(2)>>, elems, LoopArgs(op, t, 0)),
        Agent, Agent>> :
        elems \in { <<4>>, <<4, 5>> }, op \in { "equals", "" },
        t \in ReplyContents }

\* The node classes that check the number of their dependencies, besides
\* SwitchPipeline.
CompositeNames ==
    { "MsgHub", "CopyNode", "ForLoopPipeline", "WhileLoopPipeline",
      "IfElsePipeline" }

\* Start -> a composite node with the first k of the elements 3, 4, 5, node 3
\* being a SequentialPipeline of the agents 4 and 5.  (A WhileLoopPipeline
\* with one element is left out: its condition function is an expression of
\* the document that the model does not evaluate.)
CompositeSkeletons ==
    { <<StartRec,
        NodeRec(c[1], <<From(1)>>, SubSeq(<<3, 4, 5>>, 1, c[2]),
                LoopArgs("equals", StrVal(<<"a">>), 1)),
        NodeRec("SequentialPipeline", <<>>, <<4, 5>>, NoArgs),
        Agent, Agent>> :
        c \in { d \in CompositeNames \X (0..3) :
                    ~(d[1] = "WhileLoopPipeline" /\ d[2] = 1) } }

\* Configurations with a record whose name the registry does not have: last,
\* first, as an element of a pipeline, after a model node, and after a
\* CopyNode without a source.
UnknownSkeletons ==
    LET Unknown == NodeRec("Foo", <<>>, <<>>, NoArgs)
    IN  { <<StartRec, AgentAfter(<<From(1)>>), Unknown>>,
          <<Unknown, StartRec, AgentAfter(<<From(2)>>)>>,
          <<StartRec,
            NodeRec("SequentialPipeline", <<From(1)>>, <<3, 4>>, NoArgs),
            Agent, Unknown>>,
          <<NodeRec("openai_chat", <<>>, <<>>, NoArgs), StartRec,
            NodeRec("Foo", <<From(2)>>, <<>>, NoArgs)>>,
          <<StartRec, NodeRec("CopyNode", <<From(1)>>, <<>>, NoArgs),
            Unknown>> }

\* Configurations whose elements references form a cycle: a pipeline listing
\* itself, two pipelines listing each other, a CopyNode of itself, and a
\* pipeline that lists itself after an agent.
ElementCycleSkeletons ==
    { <<StartRec, NodeRec("SequentialPipeline", <<From(1)>>, <<2>>, NoArgs)>>,
      <<StartRec, NodeRec("SequentialPipeline", <<From(1)>>, <<3>>, NoArgs),
        NodeRec("SequentialPipeline", <<>>, <<2>>, NoArgs)>>,
      <<StartRec, NodeRec("CopyNode", <<From(1)>>, <<2>>, NoArgs)>>,
      <<StartRec, NodeRec("SequentialPipeline", <<From(1)>>, <<3, 2>>, NoArgs),
        Agent>> }

\* One more connection into dst, from src's output port.
Extras(sk) ==
    { [src |-> c.node, port |-> c.port, dst |-> d] :
        c \in { Conn(n, p) : n \in DOMAIN sk \cup {GhostId},
                             p \in {"output_1", "output_2"} },
        d \in DOMAIN sk }

ValidExtra(sk, e) ==
    e.port \in (IF e.src \in DOMAIN sk THEN PortsOf(sk[e.src].name)
                ELSE {"output_1"})

\* The sequences of at most k valid extra connections.
RECURSIVE ExtraSeqs(_, _)
ExtraSeqs(sk, k) ==
    IF k = 0 THEN { <<>> }
    ELSE LET shorter == ExtraSeqs(sk, k - 1)
         IN  shorter \cup
             { Append(s, e) : s \in { t \in shorter : Len(t) = k - 1 },
                              e \in { x \in Extras(sk) : ValidExtra(sk, x) } }

\* The skeleton with the extra connections appended to their nodes' inputs.
RECURSIVE WithExtras(_, _)
WithExtras(sk, es) ==
    IF es = <<>> THEN sk
    ELSE LET e == Head(es)
         IN  WithExtras(
                 [sk EXCEPT ![e.dst].inputs = Append(@, Conn(e.src, e.port))],
                 Tail(es))

\* The configuration document made of a skeleton and extra connections.
ConfigOf(sk, es) == MirrorOutputs(WithExtras(sk, es))

\* Documents not written by the editor: Start -> Agent -> IF/ELSE with the
\* agents 4 and 5 on its branches, the IF/ELSE record declaring only the
\* output ports of P (the connections of the ports it declares are those of
\* the editor's document; a third port has none).
PortSets ==
    SUBSET {"output_1", "output_2", "output_3"}
        \ { {"output_1", "output_2"} }

HandWrittenConfigs ==
    LET sk == <<StartRec, AgentAfter(<<From(1)>>),
                NodeRec("IF/ELSE", <<From(2)>>, <<>>,
                        Args("equals", StrVal(<<"a">>), StrVal(<<>>))),
                AgentAfter(<<Conn(3, "output_1")>>),
                AgentAfter(<<Conn(3, "output_2")>>)>>
        doc == ConfigOf(sk, <<>>)
    IN  { [doc EXCEPT ![3].outputs =
              [p \in P |-> IF p \in DOMAIN doc[3].outputs
                           THEN doc[3].outputs[p] ELSE <<>>]] :
          P \in PortSets }

----------------------------------------------------------------------------
(* The graph: networkx's DiGraph as ASDiGraph uses it.                     *)

\* A node without the "opt" attribute (add_edge made it).
NoOpt ==
    [made |-> FALSE, name |-> "", node_type |-> "", dep_opts |-> <<>>,
     condition_op |-> "", target_value |-> StrVal(<<>>), msg |-> 0,
     case_operators |-> <<>>, default_operators |-> 0, max_loop |-> 0,
     participants |-> <<>>, var_name |-> <<"", 0>>]

\* ASDiGraph(): no nodes, no edges, nodes_not_in_graph = set().
EmptyGraph ==
    [nodes |-> <<>>,
     opt |-> [n \in AllIds |-> NoOpt],
     outputs |-> [n \in AllIds |-> [p \in {} |-> <<>>]],
     pred |-> [n \in AllIds |-> <<>>],
     adj |-> [n \in AllIds |-> <<>>],
     nodes_not_in_graph |-> {}]

\* DiGraph.add_edge(u, v): both nodes exist afterwards, v is a successor of u
\* and u a predecessor of v, each kept once in insertion order.
add_edge(g, u, v) ==
    [g EXCEPT !.nodes = AddKey(AddKey(@, u), v),
              !.adj[u] = AddKey(@, v),
              !.pred[v] = AddKey(@, u)]

in_degree(g, n) == Len(g.pred[n])

\* Kahn's algorithm: the nodes left once no node without a remaining
\* predecessor can be removed.
RECURSIVE KahnRest(_, _)
KahnRest(g, rest) ==
    LET free == { n \in rest : Range(g.pred[n]) \cap rest = {} }
    IN  IF free = {} THEN rest ELSE KahnRest(g, rest \ free)

\* A variant of is_directed_acyclic_graph: only self-loops count as cycles.
is_directed_acyclic_graph_SelfLoops(g) ==
    \A n \in Range(g.nodes) : n \notin Range(g.pred[n])

\* nx.is_directed_acyclic_graph(g)
is_directed_acyclic_graph(g) == KahnRest(g, Range(g.nodes)) = {}

\* nx.topological_sort(g) of an acyclic g: generation by generation, the
\* first generation in node order, each next one in the order its nodes lose
\* their last predecessor.
RECURSIVE TopoFrom(_, _, _)
TopoFrom(g, gen, done) ==
    IF gen = <<>> THEN <<>>
    ELSE LET seen == done \cup Range(gen)
             ready(c) == Range(g.pred[c]) \subseteq seen
             kids == [i \in 1..Len(gen) |->
                        SelectSeq(g.adj[gen[i]],
                            LAMBDA c : ready(c) /\ c \notin seen
                                /\ \A j \in (i + 1)..Len(gen) :
                                       gen[j] \notin Range(g.pred[c]))]
             RECURSIVE Flat(_)
             Flat(i) == IF i > Len(gen) THEN <<>> ELSE kids[i] \o Flat(i + 1)
         IN  gen \o TopoFrom(g, Flat(1), seen)

topological_sort(g) ==
    TopoFrom(g, SelectSeq(g.nodes, LAMBDA n : in_degree(g, n) = 0), {})

----------------------------------------------------------------------------
(* build_dag and add_as_node.                                              *)

\* The state of a build: the graph so far, the Msg objects the constructors
\* made, the constructor calls in order, and the exception raised, if any.
BuildStart ==
    [ok |-> TRUE, err |-> "", g |-> EmptyGraph, heap |-> <<>>, built |-> <<>>,
     cfg |-> <<>>]

Raise(b, e) == [b EXCEPT !.ok = FALSE, !.err = e]

\* The node classes whose operators have the attribute `pipeline`.
HasPipeline(name) ==
    NODE_NAME_MAPPING[name] \notin {"START", "MODEL", "MESSAGE", "SERVICE"}

\* A variant of SwitchCountError: more dependencies than cases are accepted.
SwitchCountError_AtLeast(cases, dep_opts) ==
    IF Len(dep_opts) <= 0 THEN "AssertionError"
    ELSE IF Len(dep_opts) >= Len(cases) THEN ""
    ELSE "ValueError: SwitchPipelineNode deps"

\* A variant of SwitchCountError: the n + 1 case is not accepted.
SwitchCountError_NoDefault(cases, dep_opts) ==
    IF Len(dep_opts) <= 0 THEN "AssertionError"
    ELSE IF Len(dep_opts) = Len(cases) THEN ""
    ELSE "ValueError: SwitchPipelineNode deps"

\* SwitchPipelineNode._post_init, the checks on the number of dependencies:
\* at least one, and as many as the cases or one more.
SwitchCountError(cases, dep_opts) ==
    IF Len(dep_opts) <= 0 THEN "AssertionError"
    ELSE IF Len(dep_opts) = Len(cases) THEN ""
    ELSE IF Len(dep_opts) = Len(cases) + 1 THEN ""
    ELSE "ValueError: SwitchPipelineNode deps"

\* The operators zip(cases, dep_opts) pairs with the case labels: all of
\* dep_opts, or all but the last when there is one more than cases.
SwitchCaseDeps(cases, dep_opts) ==
    IF Len(dep_opts) = Len(cases) + 1
    THEN SubSeq(dep_opts, 1, Len(cases))
    ELSE dep_opts

\* default_operators: the last dependency when there is one more than
\* cases, else the placeholder function (0).
SwitchDefault(cases, dep_opts) ==
    IF Len(dep_opts) = Len(cases) + 1 THEN dep_opts[Len(dep_opts)] ELSE 0

\* case_operators: the dict the loop over zip(cases, dep_opts) fills; a label
\* declared again replaces the entry of its earlier declaration.
SwitchCaseOperators(cases, dep_opts) ==
    LET ops == SwitchCaseDeps(cases, dep_opts)
        last_i(key) == CHOOSE i \in 1..Len(cases) :
                          /\ cases[i] = key
                          /\ \A j \in (i + 1)..Len(cases) : cases[j] # key
    IN  [key \in Range(cases) |-> ops[last_i(key)]]

\* The operators a pipeline object keeps as its participants: those it was
\* given.  Only the pipeline classes of agentscope.pipelines have them.
HasParticipants(name) ==
    name \in { "SequentialPipeline", "ForLoopPipeline", "WhileLoopPipeline",
               "IfElsePipeline", "SwitchPipeline" }

PipelineParticipants(opt) == opt.dep_opts

\* What get_all_agents returns: the exception raised ("" when none), the
\* agents collected, and the set seen_agents as the call left it.
AgentsState(e, agents, seen) == [err |-> e, agents |-> agents, seen |-> seen]

\* get_all_agents(node, seen_agents); an agent object is named by the id of
\* the agent node that owns it.  collect_agents is its loop over
\* node.pipeline.participants, all_agents being the list collected so far.
RECURSIVE get_all_agents(_, _, _)
RECURSIVE collect_agents(_, _, _, _)
get_all_agents(g, node, seen_agents) ==
    IF ~HasParticipants(g.opt[node].name)
    THEN AgentsState("AttributeError", <<>>, seen_agents)
    ELSE collect_agents(g, PipelineParticipants(g.opt[node]), seen_agents,
                        <<>>)

collect_agents(g, ps, seen_agents, all_agents) ==
    IF ps = <<>> THEN AgentsState("", all_agents, seen_agents)
    ELSE LET participant ==
                 IF g.opt[Head(ps)].node_type = "COPY"
                 THEN g.opt[Head(ps)].dep_opts[1]
                 ELSE Head(ps)
         IN  CASE g.opt[participant].node_type = "AGENT" ->
                    collect_agents(
                        g, Tail(ps), seen_agents \cup {participant},
                        IF participant \in seen_agents THEN all_agents
                        ELSE Append(all_agents, participant))
               [] g.opt[participant].node_type = "PIPELINE" ->
                    LET nested == get_all_agents(g, participant, seen_agents)
                    IN  IF nested.err # ""
                        THEN AgentsState(nested.err, all_agents, nested.seen)
                        ELSE collect_agents(g, Tail(ps), nested.seen,
                                            all_agents \o nested.agents)
               [] OTHER -> AgentsState("TypeError", all_agents, seen_agents)

\* A variant of VarName: the variable name is the node type's name alone.
VarName_TypeOnly(g, name, node_id, dep_opts) ==
    IF name = "CopyNode" THEN g.opt[dep_opts[1]].var_name
    ELSE <<NODE_NAME_MAPPING[name], 0>>

\* self.var_name as WorkflowNode.__init__ sets it:
\* f"{self.node_type.name.lower()}_{self.node_id}", kept as the pair of the
\* type's name and the node id; CopyNode._post_init then replaces it by the
\* variable name of its source.
VarName(g, name, node_id, dep_opts) ==
    IF name = "CopyNode" THEN g.opt[dep_opts[1]].var_name
    ELSE <<NODE_NAME_MAPPING[name], node_id>>

\* A variant of CtorError: an IfElsePipeline node only needs a dependency.
CtorError_IfElseAtLeastOne(g, info, dep_opts) ==
    LET name == info.name
        pipeline(d) == HasPipeline(g.opt[d].name)
    IN  CASE name = "CopyNode" /\ Len(dep_opts) # 1 -> "AssertionError"
          [] name \in {"ForLoopPipeline", "WhileLoopPipeline"}
                /\ Len(dep_opts) # 1 -> "AssertionError"
          [] name = "IfElsePipeline" /\ Len(dep_opts) < 1 ->
                "AssertionError"
          [] name = "MsgHub"
                /\ ~(Len(dep_opts) = 1 /\ pipeline(dep_opts[1])) ->
                "AssertionError"
          [] name = "MsgHub" -> get_all_agents(g, dep_opts[1], {}).err
          [] name = "SwitchPipeline" ->
                LET e == SwitchCountError(info.args.cases, dep_opts)
                    ops == SwitchCaseDeps(info.args.cases, dep_opts)
                IN  IF e = "AssertionError" THEN e
                    ELSE IF ~info.args.has_cases THEN "KeyError"
                    ELSE IF e # "" THEN e
                    ELSE IF \E i \in 1..Len(ops) : ~pipeline(ops[i])
                    THEN "AttributeError"
                    ELSE IF ~info.args.source_cases THEN "KeyError"
                    ELSE ""
          [] OTHER -> ""

\* What node_cls(...) raises for these dependencies ("" when it returns):
\* WorkflowNode.__init__ and the class's _post_init.
CtorError(g, info, dep_opts) ==
    LET name == info.name
        pipeline(d) == HasPipeline(g.opt[d].name)
    IN  CASE name = "CopyNode" /\ Len(dep_opts) # 1 -> "AssertionError"
          [] name \in {"ForLoopPipeline", "WhileLoopPipeline"}
                /\ Len(dep_opts) # 1 -> "AssertionError"
          [] name = "IfElsePipeline" /\ Len(dep_opts) \notin {1, 2} ->
                "AssertionError"
          [] name = "MsgHub"
                /\ ~(Len(dep_opts) = 1 /\ pipeline(dep_opts[1])) ->
                "AssertionError"
          [] name = "MsgHub" -> get_all_agents(g, dep_opts[1], {}).err
          [] name = "SwitchPipeline" ->
                LET e == SwitchCountError(info.args.cases, dep_opts)
                    ops == SwitchCaseDeps(info.args.cases, dep_opts)
                IN  IF e = "AssertionError" THEN e
                    ELSE IF ~info.args.has_cases THEN "KeyError"
                    ELSE IF e # "" THEN e
                    ELSE IF \E i \in 1..Len(ops) : ~pipeline(ops[i])
                    THEN "AttributeError"
                    ELSE IF ~info.args.source_cases THEN "KeyError"
                    ELSE ""
          [] OTHER -> ""

\* data.args after the node's constructor: opt_kwargs is the dict of the
\* config object itself, and _post_init pops condition_op and target_value
\* from it (IfElseNode, ForLoopPipelineNode, IfElsePipelineNode, before their
\* assertions) or cases, from it and from data.source (SwitchPipelineNode,
\* once its checks have passed).
ConsumedArgs(info, e) ==
    IF info.name \in {"IF/ELSE", "ForLoopPipeline", "IfElsePipeline"}
    THEN [info.args EXCEPT !.condition_op = "",
                           !.target_value = StrVal(<<>>)]
    ELSE IF info.name = "SwitchPipeline" /\ e = ""
    THEN [info.args EXCEPT !.cases = <<>>, !.has_cases = FALSE,
                           !.source_cases = FALSE]
    ELSE info.args

\* node_cls(node_id, opt_kwargs, source_kwargs, dep_opts) followed by
\* self.add_node(node_id, opt=node_opt, **node_info).
Construct(b, cfg, node_id, dep_opts) ==
    LET info == b.cfg[node_id]
        e == CtorError(b.g, info, dep_opts)
        left == [b.cfg EXCEPT ![node_id].args = ConsumedArgs(info, e)]
        isMsg == info.name = "Message"
        isSwitch == info.name = "SwitchPipeline"
        heap1 == IF isMsg
                 THEN Append(b.heap, [src |-> node_id,
                                       content |-> info.args.content,
                                       branch |-> "absent"])
                 ELSE b.heap
        opt == [made |-> TRUE, name |-> info.name,
                node_type |-> NODE_NAME_MAPPING[info.name],
                dep_opts |-> IF isSwitch
                             THEN SwitchCaseDeps(info.args.cases, dep_opts)
                             ELSE dep_opts,
                condition_op |-> info.args.condition_op,
                target_value |-> info.args.target_value,
                msg |-> IF isMsg THEN Len(heap1) ELSE 0,
                case_operators |->
                    IF isSwitch
                    THEN SwitchCaseOperators(info.args.cases, dep_opts)
                    ELSE <<>>,
                default_operators |->
                    IF isSwitch THEN SwitchDefault(info.args.cases, dep_opts)
                    ELSE 0,
                max_loop |-> info.args.max_loop,
                participants |->
                    IF info.name = "MsgHub"
                    THEN get_all_agents(b.g, dep_opts[1], {}).agents
                    ELSE <<>>,
                var_name |-> VarName(b.g, info.name, node_id, dep_opts)]
    IN  IF e # "" THEN Raise([b EXCEPT !.cfg = left], e)
        ELSE [b EXCEPT !.heap = heap1,
                       !.cfg = left,
                       !.built = Append(@, [node |-> node_id,
                                            dep_opts |-> dep_opts,
                                            not_in_graph |->
                                                b.g.nodes_not_in_graph]),
                       !.g.nodes = Append(@, node_id),
                       !.g.opt[node_id] = opt,
                       !.g.outputs[node_id] = info.outputs]

\* The result of the loop over deps: the build so far and the dep_opts list.
DepsState(b, dep_opts) == [b |-> b, dep_opts |-> dep_opts]

\* ASDiGraph.add_as_node(node_id, node_info, config); stack holds the ids
\* whose add_as_node calls are in progress: a dependency among them recurses
\* without end, which Python ends with RecursionError.
RECURSIVE add_as_node(_, _, _, _)
RECURSIVE add_deps(_, _, _, _, _)

\* A variant of has_node: the graph never reports a node as present.
has_node_Never(g, n) == FALSE

has_node(g, n) == n \in Range(g.nodes)

\* A variant of add_as_node: a CopyNode's elements are excluded as well.
add_as_node_CopyExcludes(b, cfg, node_id, stack) ==
    LET info == cfg[node_id]
    IN  IF ~b.ok THEN b
        ELSE IF info.name \notin DOMAIN NODE_NAME_MAPPING
             THEN Raise(b, "KeyError")
        ELSE IF has_node(b.g, node_id) THEN b
        ELSE LET deps == info.elements
                 b1 == [b EXCEPT !.g.nodes_not_in_graph = @ \cup Range(deps)]
                 d2 == add_deps(b1, cfg, deps, stack \cup {node_id}, <<>>)
             IN  IF ~d2.b.ok THEN d2.b
                 ELSE Construct(d2.b, cfg, node_id, d2.dep_opts)

add_as_node(b, cfg, node_id, stack) ==
    LET info == cfg[node_id]
    IN  IF ~b.ok THEN b
        ELSE IF info.name \notin DOMAIN NODE_NAME_MAPPING
             THEN Raise(b, "KeyError")
        ELSE IF has_node(b.g, node_id) THEN b
        ELSE LET deps == info.elements
                 b1 == IF NODE_NAME_MAPPING[info.name] # "COPY"
                       THEN [b EXCEPT !.g.nodes_not_in_graph =
                                          @ \cup Range(deps)]
                       ELSE b
                 d2 == add_deps(b1, cfg, deps, stack \cup {node_id}, <<>>)
             IN  IF ~d2.b.ok THEN d2.b
                 ELSE Construct(d2.b, cfg, node_id, d2.dep_opts)

\* A variant of add_deps: each operator is put at the front of dep_opts.
add_deps_Prepend(b, cfg, deps, stack, dep_opts) ==
    IF ~b.ok \/ deps = <<>> THEN DepsState(b, dep_opts)
    ELSE LET d == Head(deps)
             b1 == IF has_node(b.g, d) THEN b
                   ELSE IF d \notin DOMAIN cfg THEN Raise(b, "KeyError")
                   ELSE IF d \in stack THEN Raise(b, "RecursionError")
                   ELSE add_as_node(b, cfg, d, stack)
         IN  add_deps(b1, cfg, Tail(deps), stack, <<d>> \o dep_opts)

\* The loop over deps of add_as_node: build the dependency unless the graph
\* has it, then append its operator to dep_opts.
add_deps(b, cfg, deps, stack, dep_opts) ==
    IF ~b.ok \/ deps = <<>> THEN DepsState(b, dep_opts)
    ELSE LET d == Head(deps)
             b1 == IF has_node(b.g, d) THEN b
                   ELSE IF d \notin DOMAIN cfg THEN Raise(b, "KeyError")
                   ELSE IF d \in stack THEN Raise(b, "RecursionError")
                   ELSE add_as_node(b, cfg, d, stack)
         IN  add_deps(b1, cfg, Tail(deps), stack, Append(dep_opts, d))

RECURSIVE add_pass(_, _, _, _)

\* A variant of add_pass: the loop does not look at the node's type.
add_pass_AnyType(b, cfg, ids, models) ==
    IF ~b.ok \/ ids = <<>> THEN b
    ELSE LET n == Head(ids)
             b1 == IF cfg[n].name \notin DOMAIN NODE_NAME_MAPPING
                   THEN Raise(b, "KeyError")
                   ELSE add_as_node(b, cfg, n, {})
         IN  add_pass(b1, cfg, Tail(ids), models)

\* A variant of add_pass: a record whose name is not registered is skipped.
add_pass_SkipUnknown(b, cfg, ids, models) ==
    IF ~b.ok \/ ids = <<>> THEN b
    ELSE LET n == Head(ids)
             b1 == IF cfg[n].name \notin DOMAIN NODE_NAME_MAPPING THEN b
                   ELSE IF (NODE_NAME_MAPPING[cfg[n].name] = "MODEL") = models
                   THEN add_as_node(b, cfg, n, {})
                   ELSE b
         IN  add_pass(b1, cfg, Tail(ids), models)

\* One of build_dag's two construction loops: the nodes whose type is (or is
\* not) MODEL, in document order.
add_pass(b, cfg, ids, models) ==
    IF ~b.ok \/ ids = <<>> THEN b
    ELSE LET n == Head(ids)
             b1 == IF cfg[n].name \notin DOMAIN NODE_NAME_MAPPING
                   THEN Raise(b, "KeyError")
                   ELSE IF (NODE_NAME_MAPPING[cfg[n].name] = "MODEL") = models
                   THEN add_as_node(b, cfg, n, {})
                   ELSE b
         IN  add_pass(b1, cfg, Tail(ids), models)

\* build_dag's edge loop for one node: an edge from each connection's source.
RECURSIVE add_edges_to(_, _, _)
add_edges_to(g, conns, node_id) ==
    IF conns = <<>> THEN g
    ELSE add_edges_to(add_edge(g, Head(conns).node, node_id), Tail(conns),
                      node_id)

RECURSIVE add_all_edges(_, _, _)
add_all_edges(g, cfg, ids) ==
    IF ids = <<>> THEN g
    ELSE add_all_edges(add_edges_to(g, cfg[Head(ids)].inputs, Head(ids)), cfg,
                       Tail(ids))

\* build_dag's loop over sanitize_node_data, on the fields Args keeps:
\* data.source becomes a copy of data.args, so it has the key "cases" when
\* data.args has it.
sanitize_config(cfg) ==
    [n \in DOMAIN cfg |->
        [cfg[n] EXCEPT !.args.source_cases = cfg[n].args.has_cases]]

\* build_dag(config): the records sanitized in place, model nodes, the other
\* nodes, the edges, the DAG check.
build_dag(cfg) ==
    LET ids == SortedIds(DOMAIN cfg)
        b0 == [BuildStart EXCEPT !.cfg = sanitize_config(cfg)]
        b1 == add_pass(b0, b0.cfg, ids, TRUE)
        b2 == add_pass(b1, b0.cfg, ids, FALSE)
        g3 == add_all_edges(b2.g, b0.cfg, ids)
    IN  IF ~b2.ok THEN b2
        ELSE IF ~is_directed_acyclic_graph(g3)
             THEN Raise(b2, "ValueError: not a DAG")
        ELSE [b2 EXCEPT !.g = g3]

----------------------------------------------------------------------------
(* Operator invocation: opt(x) for the operator of node n.                 *)

\* What the world outside decides for one invocation: whether an agent's
\* model call (or a Code node's execution) raises, the content replied, and
\* the case key a Switch node's key extractor computes.
\* What execute_python_code hands back to a Code node: a status and the text
\* the executed code printed, as a sequence of pieces: the result delimiter
\* "<<RESULT>>", a JSON document "{}" and other printed text "log".
WellFormedOut == [status |-> "SUCCESS", content |-> <<"<<RESULT>>", "{}", "<<RESULT>>">>]

CodeOutputs ==
    { WellFormedOut,
      [status |-> "SUCCESS", content |-> <<"log", "<<RESULT>>", "{}", "<<RESULT>>">>],
      [status |-> "SUCCESS", content |-> <<>>],
      [status |-> "SUCCESS", content |-> <<"{}">>],
      [status |-> "SUCCESS", content |-> <<"<<RESULT>>", "{}">>],
      [status |-> "SUCCESS", content |-> <<"<<RESULT>>", "log", "<<RESULT>>">>],
      [status |-> "ERROR", content |-> <<"log">>] }

\* The execution result recorded for a call of an operator that executes no
\* code.
NoCodeOut == [status |-> "", content |-> <<>>]

Oracles ==
    { [raises |-> TRUE, replies |-> [i \in 1..MaxLoop |-> StrVal(<<>>)],
       key |-> "z", code |-> WellFormedOut] } \cup
    { [raises |-> FALSE, replies |-> cs, key |-> k, code |-> WellFormedOut] :
        cs \in [1..MaxLoop -> ReplyContents], k \in CaseKeys } \cup
    { [raises |-> FALSE, replies |-> [i \in 1..MaxLoop |-> StrVal(<<>>)],
       key |-> "z", code |-> c] : c \in CodeOutputs }

\* The content replied to the i-th agent call of an invocation; the calls
\* after the last one decided get the last reply.
ReplyOf(o, i) == o.replies[IF i <= MaxLoop THEN i ELSE MaxLoop]

AgentNames ==
    { "DialogAgent", "UserAgent", "TextToImageAgent", "DictDialogAgent",
      "ReActAgent" }

\* No agent is attached to an announcement scope.
NoAudience == [n \in NodeIds |-> [attached |-> FALSE, to |-> {}]]

\* The agents that are attached to an announcement scope.
Attached(aud) == { a \in NodeIds : aud[a].attached }

\* The state of an invocation: the value passed along, the heap, the calls
\* made so far, whether an exception is propagating, the node id that
\* exception's message names (0 when it names none), the number of agent
\* calls made, and the agents' announcement scopes.
CallState(x, h, cs, aud) ==
    [ok |-> TRUE, val |-> x, heap |-> h, calls |-> cs, exc |-> 0, n |-> 0,
     audience |-> aud]

CallRaise(r) == [r EXCEPT !.ok = FALSE]

\* A statement, then the statements after it: F applied to the state the
\* statement r leaves, r being evaluated once.
Then(r, F(_)) == CHOOSE after \in { F(s) : s \in {r} } : TRUE

\* agent(x): a new Msg with the reply's content, or the model call raises.
AgentCall(r, n, o) ==
    IF o.raises THEN CallRaise(r)
    ELSE LET h == Append(r.heap, [src |-> n,
                                  content |-> ReplyOf(o, r.n + 1),
                                  branch |-> "absent"])
         IN  [r EXCEPT !.heap = h, !.val = PyObj(Len(h)), !.n = @ + 1]

\* IfElseNode.__call__(x): x["branch"] = self.pipeline(x); return x.  The
\* item assignment raises TypeError for None and for a list; for a Msg the
\* predicate is applied to its content and the flag is written into x itself.
IfElseCall(r, opt) ==
    IF r.val.k # "obj" THEN CallRaise(r)
    ELSE LET b == eval_condition_operator(
                      MsgValue(TRUE, r.heap[r.val.ref].content),
                      opt.condition_op, opt.target_value)
         IN  IF b \notin {"True", "False"} THEN CallRaise(r)
             ELSE [r EXCEPT !.heap[r.val.ref].branch = b]

\* The positions of the result delimiter in the printed text.
Delimiters(content) == { i \in 1..Len(content) : content[i] = "<<RESULT>>" }

\* A variant of extract_result: a text without the delimiter is the result.
extract_result_WholeText(content) ==
    IF Cardinality(Delimiters(content)) < 2
    THEN [err |-> "", group |-> content]
    ELSE LET first == CHOOSE i \in Delimiters(content) :
                          \A j \in Delimiters(content) : i <= j
             last_ == CHOOSE i \in Delimiters(content) :
                          \A j \in Delimiters(content) : j <= i
         IN  [err |-> "", group |-> SubSeq(content, first + 1, last_ - 1)]

\* CodeNode.extract_result(content): re.search of
\* <<RESULT>>(.*)<<RESULT>> with DOTALL: the text between the first delimiter
\* and the last one; ValueError("Failed to parse result") when there is no
\* such pair.
extract_result(content) ==
    IF Cardinality(Delimiters(content)) < 2
    THEN [err |-> "ValueError", group |-> <<>>]
    ELSE LET first == CHOOSE i \in Delimiters(content) :
                          \A j \in Delimiters(content) : i <= j
             last_ == CHOOSE i \in Delimiters(content) :
                          \A j \in Delimiters(content) : j <= i
         IN  [err |-> "", group |-> SubSeq(content, first + 1, last_ - 1)]

\* json.loads(content): the error it raises, "" when content is one JSON
\* document.
json_loads(content) == IF content = <<"{}">> THEN "" ELSE "JSONDecodeError"

\* CodeNode.__call__(x): the code is executed and its result extracted inside
\* try; whatever is raised there leaves as RuntimeError("Code id: <node_id>,
\* error executing: ...").  Otherwise the parsed result is returned, or, when
\* the execution did not succeed, the execution's response itself.
CodeCall(r, n, o) ==
    LET Raised == [CallRaise(r) EXCEPT !.exc = n]
        Returned(content) ==
            LET h == Append(r.heap, [src |-> n, content |-> content,
                                     branch |-> "absent"])
            IN  [r EXCEPT !.heap = h, !.val = PyObj(Len(h))]
    IN  IF o.raises THEN Raised
        ELSE IF o.code.status # "SUCCESS" THEN Returned(NoneVal)
        ELSE LET res == extract_result(o.code.content)
             IN  IF res.err # "" THEN Raised
                 ELSE IF json_loads(res.group) # "" THEN Raised
                 ELSE Returned(ReplyOf(o, 1))

\* opt.__call__(r.val) for the operator of node n, called by the engine or by
\* another operator.
RECURSIVE Invoke(_, _, _, _, _)
RECURSIVE InvokeAll(_, _, _, _)

RECURSIVE ForLoopCall(_, _, _, _, _)

\* msghub.__enter__: every participant's audience becomes the other
\* participants.
MsgHubEnter(r, participants) ==
    [r EXCEPT !.audience =
        [a \in NodeIds |->
            IF a \in Range(participants)
            THEN [attached |-> TRUE, to |-> Range(participants) \ {a}]
            ELSE @[a]]]

\* msghub.__exit__: every participant's audience is cleared.
MsgHubExit(r, participants) ==
    [r EXCEPT !.audience =
        [a \in NodeIds |->
            IF a \in Range(participants)
            THEN [attached |-> FALSE, to |-> {}]
            ELSE @[a]]]

\* A variant of MsgHubCall: the scope is left only when the pipeline returns.
MsgHubCall_ExitOnReturn(g, r, n, o) ==
    LET opt == g.opt[n]
        Pipeline(r1) == Invoke(g, r1, opt.dep_opts[1], o, "operator")
        Exit(r2) == IF r2.ok THEN MsgHubExit(r2, opt.participants) ELSE r2
    IN  Then(Then(MsgHubEnter(r, opt.participants), Pipeline), Exit)

\* MsgHubNode.__call__(x): with msghub(self.participants, ...):
\* x = self.pipeline(x); the with statement leaves the scope whether the
\* pipeline returns or raises.
MsgHubCall(g, r, n, o) ==
    LET opt == g.opt[n]
        Pipeline(r1) == Invoke(g, r1, opt.dep_opts[1], o, "operator")
        Exit(r2) == MsgHubExit(r2, opt.participants)
    IN  Then(Then(MsgHubEnter(r, opt.participants), Pipeline), Exit)

\* What a pipeline's predicate gets as actual_value: the Msg passed along, or
\* None (the documents of the model pass these pipelines nothing else).
ActualValue(r) ==
    CASE r.val.k = "obj" -> MsgValue(TRUE, r.heap[r.val.ref].content)
      [] r.val.k = "none" -> PlainValue(NoneVal)

\* The record of one evaluation of node n's predicate in the calls.
Evaluated(r, n, b) ==
    [r EXCEPT !.calls = Append(@, [node |-> n, by |-> "predicate",
                                   x |-> r.val, key |-> b,
                                   scope |-> Attached(r.audience),
                                   out |-> NoCodeOut])]

\* A variant of BreakFunc: the loop's predicate never holds.
BreakFunc_Never(r, opt) == "False"

\* ForLoopPipelineNode's break_func applied to x:
\* partial(eval_condition_operator, operator=condition_op,
\* target_value=target_value)(x).
BreakFunc(r, opt) ==
    eval_condition_operator(ActualValue(r), opt.condition_op,
                            opt.target_value)

\* ForLoopPipeline(loop_body_operators, max_loop, break_func)(x), with
\* `left` iterations to go: x = body(x), then break if break_func(x).
ForLoopCall(g, r, n, o, left) ==
    IF ~r.ok \/ left = 0 THEN r
    ELSE LET opt == g.opt[n]
             AfterBody(r1) ==
                 LET b == BreakFunc(r1, opt)
                     AfterBreakFunc(r2) ==
                         IF b = "True" THEN r2
                         ELSE IF b = "False"
                         THEN ForLoopCall(g, r2, n, o, left - 1)
                         ELSE CallRaise(r2)
                 IN  IF ~r1.ok THEN r1
                     ELSE Then(Evaluated(r1, n, b), AfterBreakFunc)
         IN  Then(Invoke(g, r, opt.dep_opts[1], o, "operator"), AfterBody)

\* A variant of IfElseBodies: the two dependencies change places.
IfElseBodies_Swapped(dep_opts) ==
    IF Len(dep_opts) = 1 THEN [if_body |-> 0, else_body |-> dep_opts[1]]
    ELSE [if_body |-> dep_opts[2], else_body |-> dep_opts[1]]

\* IfElsePipelineNode._post_init: if_body_operators = dep_opts[0], and
\* else_body_operators = dep_opts[1] when there are two (0: left to the
\* pipeline's default, the placeholder function).
IfElseBodies(dep_opts) ==
    IF Len(dep_opts) = 1 THEN [if_body |-> dep_opts[1], else_body |-> 0]
    ELSE [if_body |-> dep_opts[1], else_body |-> dep_opts[2]]

\* IfElsePipelineNode's condition_func applied to x:
\* partial(eval_condition_operator, operator=condition_op,
\* target_value=target_value)(x).
ConditionFunc(r, opt) ==
    eval_condition_operator(ActualValue(r), opt.condition_op,
                            opt.target_value)

\* IfElsePipeline(condition_func, if_body_operators, else_body_operators)(x):
\* the if body when condition_func(x) holds, else the else body; the
\* placeholder function returns x.
IfElsePipelineCall(g, r, n, o) ==
    LET opt == g.opt[n]
        b == ConditionFunc(r, opt)
        r1 == Evaluated(r, n, b)
        body == IF b = "True" THEN IfElseBodies(opt.dep_opts).if_body
                ELSE IfElseBodies(opt.dep_opts).else_body
        Body(r2) == IF b \notin {"True", "False"} THEN CallRaise(r2)
                    ELSE IF body = 0 THEN r2
                    ELSE Invoke(g, r2, body, o, "operator")
    IN  Then(r1, Body)

\* SwitchPipeline(case_operators, default_operators)(x): the operator of the
\* case the key names, else the default operator, else x unchanged.
SwitchCall(g, r, opt, o) ==
    IF o.key \in DOMAIN opt.case_operators
    THEN Invoke(g, r, opt.case_operators[o.key], o, "operator")
    ELSE IF opt.default_operators # 0
    THEN Invoke(g, r, opt.default_operators, o, "operator")
    ELSE r

Invoke(g, r, n, o, by) ==
    IF ~r.ok THEN r
    ELSE LET opt == g.opt[n]
             Called ==
                 [r EXCEPT !.calls =
                     Append(@, [node |-> n, by |-> by, x |-> r.val,
                                key |-> IF opt.name = "SwitchPipeline"
                                        THEN o.key ELSE "",
                                scope |-> Attached(r.audience),
                                out |-> IF opt.name = "Code"
                                        THEN o.code ELSE NoCodeOut])]
             Call(r1) ==
                 CASE opt.name = "Message" ->
                        [r1 EXCEPT !.val = PyObj(opt.msg)]
                   [] opt.name \in AgentNames -> AgentCall(r1, n, o)
                   [] opt.name = "IF/ELSE" -> IfElseCall(r1, opt)
                   [] opt.name = "SequentialPipeline" ->
                          InvokeAll(g, r1, opt.dep_opts, o)
                   [] opt.name = "CopyNode" ->
                          Invoke(g, r1, opt.dep_opts[1], o, "operator")
                   [] opt.name = "SwitchPipeline" -> SwitchCall(g, r1, opt, o)
                   [] opt.name = "Code" -> CodeCall(r1, n, o)
                   [] opt.name = "MsgHub" -> MsgHubCall(g, r1, n, o)
                   [] opt.name = "IfElsePipeline" ->
                          IfElsePipelineCall(g, r1, n, o)
                   [] opt.name = "ForLoopPipeline" ->
                          ForLoopCall(g, r1, n, o, opt.max_loop)
                   [] OTHER -> r1
         IN  Then(Called, Call)

\* SequentialPipeline(operators)(x): each operator on the previous output.
InvokeAll(g, r, ops, o) ==
    IF ~r.ok \/ ops = <<>> THEN r
    ELSE LET Rest(r1) == InvokeAll(g, r1, Tail(ops), o)
         IN  Then(Invoke(g, r, Head(ops), o, "operator"), Rest)

\* ASDiGraph.exec_node(node_id, x_in): out_values = opt(x_in).
exec_node(g, h, cs, aud, node_id, x_in, o) ==
    Invoke(g, CallState(x_in, h, cs, aud), node_id, o, "engine")

----------------------------------------------------------------------------
(* ASDiGraph.run.                                                          *)

\* sorted_nodes: the topological order without nodes_not_in_graph.
sorted_nodes(g) ==
    SelectSeq(topological_sort(g), LAMBDA n : n \notin g.nodes_not_in_graph)

root_node_ids(g) == SelectSeq(sorted_nodes(g), LAMBDA n : in_degree(g, n) = 0)

start_node_ids(g) ==
    SelectSeq(root_node_ids(g), LAMBDA n : g.opt[n].node_type = "START")

\* self.predecessors(node_id), in the order the edges were added.
predecessors(g, n) == g.pred[n]

\* A variant of AlreadyVisited: the test is missing.
AlreadyVisited_Never(vis, n) == FALSE

\* The test `node_id in visited` on the dequeued id.
AlreadyVisited(vis, n) == n \in vis

\* The readiness test of the loop: all(predecessor in visited ...).
AllPredecessorsVisited(g, vis, n) ==
    \A i \in 1..Len(predecessors(g, n)) : predecessors(g, n)[i] \in vis

\* A variant of InputsOf: only the first predecessor's output is passed on.
InputsOf_FirstOnly(g, vals, n) ==
    IF Len(predecessors(g, n)) = 0 THEN PyNone
    ELSE vals[predecessors(g, n)[1]]

\* The argument exec_node gets: nothing for no predecessor, the output of a
\* single predecessor, the list of outputs otherwise.
InputsOf(g, vals, n) ==
    LET inputs == [i \in 1..Len(predecessors(g, n)) |->
                      vals[predecessors(g, n)[i]]]
    IN  IF Len(inputs) = 0 THEN PyNone
        ELSE IF Len(inputs) = 1 THEN inputs[1]
        ELSE PyList(inputs)

\* A variant of EnqueueUnvisited: every id is appended twice.
EnqueueUnvisited_Twice(q, s, vis) ==
    q \o SelectSeq(s, LAMBDA c : c \notin vis)
      \o SelectSeq(s, LAMBDA c : c \notin vis)

\* The queue after appending the ids of s that are not visited.
EnqueueUnvisited(q, s, vis) == q \o SelectSeq(s, LAMBDA c : c \notin vis)

\* values[node_id].get("branch", True) of the engine.
BranchTrue(h, v) ==
    IF v.k = "obj" THEN h[v.ref].branch # "False" ELSE TRUE

\* A variant of NextNodeIds: every successor is enqueued, whatever the branch.
NextNodeIds_AllSuccessors(g, h, v, node_id) ==
    [ok |-> TRUE, ids |-> g.adj[node_id]]

\* The ids the engine enqueues after visiting node_id ("KeyError" when an
\* IF/ELSE node's record lacks the port the engine reads).
NextNodeIds(g, h, v, node_id) ==
    IF g.opt[node_id].node_type = "IFELSE"
    THEN LET port == IF BranchTrue(h, v) THEN "output_1" ELSE "output_2"
         IN  IF port \in DOMAIN g.outputs[node_id]
             THEN [ok |-> TRUE, ids |-> g.outputs[node_id][port]]
             ELSE [ok |-> FALSE, ids |-> <<>>]
    ELSE [ok |-> TRUE, ids |-> g.adj[node_id]]

NoStep == [op |-> "none", node |-> 0]

\* No call of eval_condition_operator is being followed.
NoEval == [stage |-> "none"]

\* build_dag was not called a second time.
NoRebuild == [stage |-> "none"]

\* No call of sanitize_node_data is being followed.
NoRawInfo == [stage |-> "none"]

Did(op, n) == [op |-> op, node |-> n]

Init ==
    /\ config = [n \in {} |-> NodeRec("", <<>>, <<>>, NoArgs)]
    /\ pc = "load"
    /\ dag = EmptyGraph
    /\ node_queue = <<>>
    /\ visited = {}
    /\ values = [n \in {} |-> PyNone]
    /\ heap = <<>>
    /\ calls = <<>>
    /\ err = ""
    /\ taken = [n \in {} |-> TRUE]
    /\ last = NoStep
    /\ built = <<>>
    /\ err_node = 0
    /\ ev = NoEval
    /\ audience = NoAudience
    /\ cfg_obj = <<>>
    /\ rebuilt = NoRebuild
    /\ raw_info = NoRawInfo

\* workflow.main: config = load_config(cfg_path), any document of the model.
LoadConfig ==
    /\ pc = "load"
    /\ \/ \E sk \in Skeletons :
             \E es \in ExtraSeqs(sk, MaxExtra) : config' = ConfigOf(sk, es)
       \/ \E sk \in SwitchSkeletons \cup ForLoopSkeletons \cup MsgHubSkeletons
                     \cup IfElsePipelineSkeletons \cup CompositeSkeletons
                     \cup UnknownSkeletons \cup ElementCycleSkeletons :
             config' = ConfigOf(sk, <<>>)
       \/ \E doc \in HandWrittenConfigs : config' = doc
    /\ cfg_obj' = config'
    /\ pc' = "config"
    /\ last' = Did("load", 0)
    /\ UNCHANGED <<dag, node_queue, visited, values, heap, calls, err, taken,
                   built, err_node, ev,
                   audience, rebuilt, raw_info>>

\* start_workflow: dag = build_dag(config).
Build ==
    /\ pc = "config"
    /\ LET b == build_dag(cfg_obj)
       IN  /\ pc' = IF b.ok THEN "built" ELSE "build_error"
           /\ dag' = IF b.ok THEN b.g ELSE EmptyGraph
           /\ heap' = IF b.ok THEN b.heap ELSE <<>>
           /\ err' = b.err
           /\ built' = b.built
           /\ cfg_obj' = b.cfg
    /\ err_node' = 0
    /\ last' = Did("build", 0)
    /\ UNCHANGED <<config, node_queue, visited, values, calls, taken, ev,
                   audience, rebuilt, raw_info>>

\* build_dag(config) once more, on the config object the first call
\* returned from.
Rebuild ==
    /\ pc = "built"
    /\ LET b == build_dag(cfg_obj)
       IN  /\ rebuilt' = [stage |-> "returned", ok |-> b.ok, g |-> b.g,
                          err |-> b.err]
           /\ cfg_obj' = b.cfg
    /\ pc' = "rebuilt"
    /\ last' = Did("rebuild", 0)
    /\ UNCHANGED <<config, dag, node_queue, visited, values, heap, calls, err,
                   taken, built, err_node, ev, audience, raw_info>>

\* run, up to the while loop: the roots, the Start roots, the queue.
RunPrologue ==
    /\ pc = "built"
    /\ LET roots == root_node_ids(dag)
           starts == start_node_ids(dag)
       IN  IF \E i \in 1..Len(roots) : ~dag.opt[roots[i]].made
           THEN /\ pc' = "run_error"
                /\ err' = "KeyError: 'opt'"
                /\ node_queue' = <<>>
           ELSE IF Len(starts) <= 0
           THEN /\ pc' = "run_error"
                /\ err' = "ValueError: No start node found!"
                /\ node_queue' = <<>>
           ELSE /\ pc' = "running"
                /\ err' = ""
                /\ node_queue' = starts
    /\ visited' = {}
    /\ values' = [n \in {} |-> PyNone]
    /\ last' = Did("prologue", 0)
    /\ err_node' = 0
    /\ UNCHANGED <<config, dag, heap, calls, taken, built, ev,
                   audience, cfg_obj, rebuilt, raw_info>>

\* One iteration: the dequeued id is already visited.
StepDiscard ==
    /\ pc = "running"
    /\ node_queue # <<>>
    /\ AlreadyVisited(visited, Head(node_queue))
    /\ node_queue' = Tail(node_queue)
    /\ last' = Did("discard", Head(node_queue))
    /\ UNCHANGED <<config, pc, dag, visited, values, heap, calls, err, taken,
                   built, err_node, ev,
                   audience, cfg_obj, rebuilt, raw_info>>

\* A variant of StepRequeue: the id that is not ready is dropped.
StepRequeue_Drop ==
    /\ pc = "running"
    /\ node_queue # <<>>
    /\ ~AlreadyVisited(visited, Head(node_queue))
    /\ ~AllPredecessorsVisited(dag, visited, Head(node_queue))
    /\ node_queue' = Tail(node_queue)
    /\ last' = Did("requeue", Head(node_queue))
    /\ UNCHANGED <<config, pc, dag, visited, values, heap, calls, err, taken,
                   built, err_node, ev,
                   audience, cfg_obj, rebuilt, raw_info>>

\* One iteration: a predecessor is not visited, the id goes to the back.
StepRequeue ==
    /\ pc = "running"
    /\ node_queue # <<>>
    /\ ~AlreadyVisited(visited, Head(node_queue))
    /\ ~AllPredecessorsVisited(dag, visited, Head(node_queue))
    /\ node_queue' = Append(Tail(node_queue), Head(node_queue))
    /\ last' = Did("requeue", Head(node_queue))
    /\ UNCHANGED <<config, pc, dag, visited, values, heap, calls, err, taken,
                   built, err_node, ev,
                   audience, cfg_obj, rebuilt, raw_info>>

\* The state after exec_node returned r for node_id: the output is cached,
\* the node visited, its successors enqueued.
AfterReturn(node_id, r) ==
    LET vis == visited \cup {node_id}
        nxt == NextNodeIds(dag, r.heap, r.val, node_id)
    IN  /\ values' = [n \in DOMAIN values \cup {node_id} |->
                         IF n = node_id THEN r.val ELSE values[n]]
        /\ visited' = vis
        /\ heap' = r.heap
        /\ calls' = r.calls
        /\ audience' = r.audience
        /\ err_node' = 0
        /\ taken' = IF dag.opt[node_id].node_type = "IFELSE"
                     THEN [n \in DOMAIN taken \cup {node_id} |->
                              IF n = node_id THEN BranchTrue(r.heap, r.val)
                              ELSE taken[n]]
                     ELSE taken
        /\ IF nxt.ok
           THEN /\ node_queue' =
                       EnqueueUnvisited(Tail(node_queue), nxt.ids, vis)
                /\ pc' = pc
                /\ err' = err
                /\ last' = Did("exec", node_id)
           ELSE /\ node_queue' = Tail(node_queue)
                /\ pc' = "run_error"
                /\ err' = "KeyError: outputs"
                /\ last' = Did("keyerror", node_id)

\* A variant of AfterRaise: the exception is caught and the loop goes on.
AfterRaise_Swallow(node_id, r) ==
    /\ pc' = pc
    /\ err' = "Exception in operator"
    /\ node_queue' = Tail(node_queue)
    /\ heap' = r.heap
    /\ calls' = r.calls
    /\ audience' = r.audience
    /\ err_node' = r.exc
    /\ last' = Did("raise", node_id)
    /\ UNCHANGED <<visited, values, taken>>

\* The state after exec_node raised for node_id: the exception leaves run.
AfterRaise(node_id, r) ==
    /\ pc' = "run_error"
    /\ err' = "Exception in operator"
    /\ node_queue' = Tail(node_queue)
    /\ heap' = r.heap
    /\ calls' = r.calls
    /\ audience' = r.audience
    /\ err_node' = r.exc
    /\ last' = Did("raise", node_id)
    /\ UNCHANGED <<visited, values, taken>>

\* One iteration: every predecessor is visited, the operator is invoked.
StepExec ==
    /\ pc = "running"
    /\ node_queue # <<>>
    /\ ~AlreadyVisited(visited, Head(node_queue))
    /\ AllPredecessorsVisited(dag, visited, Head(node_queue))
    /\ \E o \in Oracles :
          \E r \in { exec_node(dag, heap, calls, audience, Head(node_queue),
                               InputsOf(dag, values, Head(node_queue)), o) } :
              IF r.ok THEN AfterReturn(Head(node_queue), r)
              ELSE AfterRaise(Head(node_queue), r)
    /\ UNCHANGED <<config, dag, built, ev, cfg_obj, rebuilt, raw_info>>

\* The queue is empty: the loop ends and run returns.
RunReturn ==
    /\ pc = "running"
    /\ node_queue = <<>>
    /\ pc' = "done"
    /\ last' = Did("return", 0)
    /\ UNCHANGED <<config, dag, node_queue, visited, values, heap, calls, err,
                   taken, built, err_node, ev,
                   audience, cfg_obj, rebuilt, raw_info>>

Next ==
    \/ LoadConfig
    \/ Build
    \/ Rebuild
    \/ RunPrologue
    \/ StepDiscard
    \/ StepRequeue
    \/ StepExec
    \/ RunReturn

Spec == Init /\ [][Next]_vars

----------------------------------------------------------------------------
(* eval_condition_operator on its own: one call with any arguments.        *)

\* The strings over "a" and "b" up to MaxStrLen, and None.
EvalContents ==
    { StrVal(q) : q \in SeqsUpTo({"a", "b"}, MaxStrLen) } \cup { NoneVal }

\* actual_value: a Msg with any content or with none, a string, None.
EvalValues ==
    { MsgValue(TRUE, c) : c \in EvalContents }
        \cup { MsgValue(FALSE, StrVal(<<>>)) }
        \cup { PlainValue(c) : c \in EvalContents }

\* operator: the ten names and strings that are none of them.
EvalOperators ==
    ConditionOperators
        \cup { "", "Equals", "IS NULL", "is_empty", "contains ", "==" }

EvalInit ==
    /\ config = [n \in {} |-> NodeRec("", <<>>, <<>>, NoArgs)]
    /\ pc = "eval"
    /\ dag = EmptyGraph
    /\ node_queue = <<>>
    /\ visited = {}
    /\ values = [n \in {} |-> PyNone]
    /\ heap = <<>>
    /\ calls = <<>>
    /\ err = ""
    /\ taken = [n \in {} |-> TRUE]
    /\ last = NoStep
    /\ built = <<>>
    /\ err_node = 0
    /\ audience = NoAudience
    /\ cfg_obj = <<>>
    /\ rebuilt = NoRebuild
    /\ raw_info = NoRawInfo
    /\ \E v \in EvalValues, o \in EvalOperators, t \in EvalContents :
          ev = [stage |-> "call", actual_value |-> v, operator |-> o,
                target_value |-> t, result |-> ""]

\* The call returns True or False, or raises.
EvalCall ==
    /\ pc = "eval"
    /\ ev.stage = "call"
    /\ LET b == eval_condition_operator(ev.actual_value, ev.operator,
                                        ev.target_value)
       IN  ev' = [ev EXCEPT !.result = b,
                            !.stage = IF b \in {"True", "False"}
                                      THEN "returned" ELSE "raised"]
    /\ UNCHANGED <<config, pc, dag, node_queue, visited, values, heap, calls,
                   err, taken, last, built, err_node, audience, cfg_obj, rebuilt, raw_info>>

EvalNext == EvalCall

EvalSpec == EvalInit /\ [][EvalNext]_vars

----------------------------------------------------------------------------
(* sanitize_node_data on its own: two calls on one node record.           *)

\* The keys data.args may have.
ArgKeyNames ==
    <<"condition_op", "target_value", "name", "content", "cases", "code">>

ArgKeys == { ArgKeyNames[i] : i \in 1..MaxArgs }

\* The values of a key: the empty string, another string, None.
ArgValues == { StrVal(<<>>), StrVal(<<"a">>), NoneVal }

\* The dicts over ArgKeys.
ArgDicts == UNION { [K -> ArgValues] : K \in SUBSET ArgKeys }

EmptyDict == [k \in {} |-> NoneVal]

\* A dict without the keys of S.
Without(d, S) == [k \in DOMAIN d \ S |-> d[k]]

\* The node records sanitize_node_data may get, as far as it reads them:
\* data with or without "args", and with or without a "source" left by the
\* editor.
RawInfos ==
    { [has_args |-> TRUE, args |-> d, has_source |-> hs, source |-> s] :
        d \in ArgDicts, hs \in BOOLEAN, s \in {EmptyDict} }
    \cup
    { [has_args |-> TRUE, args |-> d, has_source |-> TRUE,
       source |-> [k \in ArgKeys |-> StrVal(<<"a">>)]] : d \in ArgDicts }
    \cup
    { [has_args |-> FALSE, args |-> EmptyDict, has_source |-> hs,
       source |-> EmptyDict] : hs \in BOOLEAN }

\* A variant of sanitize_node_data: the empty strings are dropped from
\* data.args only.
sanitize_node_data_ArgsOnly(raw_info_) ==
    LET copied_args == IF raw_info_.has_args THEN raw_info_.args
                       ELSE EmptyDict
        empty == { key \in DOMAIN copied_args :
                       copied_args[key] = StrVal(<<>>) }
    IN  [has_args |-> raw_info_.has_args,
         args |-> Without(raw_info_.args, empty),
         has_source |-> TRUE,
         source |-> copied_args]

\* sanitize_node_data(raw_info): data.source becomes a copy of data.args (of
\* {} when data has no args), then every key whose value in the copy is ""
\* is popped from data.args and from data.source.
sanitize_node_data(raw_info_) ==
    LET copied_args == IF raw_info_.has_args THEN raw_info_.args
                       ELSE EmptyDict
        empty == { key \in DOMAIN copied_args :
                       copied_args[key] = StrVal(<<>>) }
    IN  [has_args |-> raw_info_.has_args,
         args |-> Without(raw_info_.args, empty),
         has_source |-> TRUE,
         source |-> Without(copied_args, empty)]

SanitizeInit ==
    /\ config = [n \in {} |-> NodeRec("", <<>>, <<>>, NoArgs)]
    /\ pc = "sanitize"
    /\ dag = EmptyGraph
    /\ node_queue = <<>>
    /\ visited = {}
    /\ values = [n \in {} |-> PyNone]
    /\ heap = <<>>
    /\ calls = <<>>
    /\ err = ""
    /\ taken = [n \in {} |-> TRUE]
    /\ last = NoStep
    /\ built = <<>>
    /\ err_node = 0
    /\ ev = NoEval
    /\ audience = NoAudience
    /\ cfg_obj = <<>>
    /\ rebuilt = NoRebuild
    /\ \E r \in RawInfos :
          raw_info = [stage |-> "raw", raw |-> r, before |-> r, data |-> r]

\* One call of sanitize_node_data on the record, the first or the second.
SanitizeCall ==
    /\ pc = "sanitize"
    /\ raw_info.stage \in {"raw", "once"}
    /\ raw_info' = [raw_info EXCEPT
                       !.stage = IF @ = "raw" THEN "once" ELSE "twice",
                       !.before = raw_info.data,
                       !.data = sanitize_node_data(raw_info.data)]
    /\ UNCHANGED <<config, pc, dag, node_queue, visited, values, heap, calls,
                   err, taken, last, built, err_node, ev, audience, cfg_obj,
                   rebuilt>>

SanitizeNext == SanitizeCall

SanitizeSpec == SanitizeInit /\ [][SanitizeNext]_vars

\* One iteration of run's while loop, or its exit.
RunLoop == StepDiscard \/ StepRequeue \/ StepExec \/ RunReturn

\* run is a running program: while it is in its loop it takes the next
\* iteration.
FairSpec == Spec /\ WF_vars(RunLoop)

----------------------------------------------------------------------------
(* Properties of the engine and the builder.                               *)

\* The positions of cs at which the engine itself invoked node n.
EngineCallsIn(cs, n) ==
    { i \in 1..Len(cs) : cs[i].node = n /\ cs[i].by = "engine" }

EngineCallsOf(n) == EngineCallsIn(calls, n)

\* The nodes reachable from the set S along the pairs of E.
RECURSIVE ReachFrom(_, _)
ReachFrom(S, E) ==
    LET more == { e[2] : e \in { d \in E : d[1] \in S } } \ S
    IN  IF more = {} THEN S ELSE ReachFrom(S \cup more, E)

\* A node of P lies on a cycle of E restricted to P.
CycleWithin(P, E) ==
    LET EP == { e \in E : e[1] \in P /\ e[2] \in P }
    IN  \E n \in P : n \in ReachFrom({ e[2] : e \in { d \in EP : d[1] = n } }, EP)

\* The build has ended and returned a graph.
GraphReturned == pc \in {"built", "running", "done", "run_error"}

\* The number of records of the document that name the Start type.
StartCount == Cardinality({ n \in DOMAIN config : config[n].name = "start" })

\* C1: for every acyclic configuration with exactly one Start node, run
\* terminates: once the loop runs, it eventually ends (the queue empties or an
\* error leaves it); no id is re-enqueued forever.
C1_RunTerminates ==
    (pc = "running" /\ StartCount = 1) ~> (pc # "running")

\* C2: during a run the engine invokes each node's operator at most once,
\* however often the node's id is enqueued.
C2_InvokedAtMostOnce ==
    \A n \in AllIds : Cardinality(EngineCallsOf(n)) <= 1

\* C2's case: an id that was enqueued again is dequeued after its node was
\* invoked, and is discarded.
C2_Witness ==
    /\ last.op = "discard"
    /\ Cardinality(EngineCallsOf(last.node)) = 1

\* C3: the engine invokes a node's operator only after every direct
\* predecessor was invoked and its output cached, and a dequeued node with an
\* unvisited predecessor goes to the back of the queue without being invoked.
C3_OnlyAfterPredecessors ==
    [][ /\ \A n \in AllIds :
             EngineCallsIn(calls', n) # EngineCallsOf(n) =>
                \A p \in Range(dag.pred[n]) :
                    /\ p \in visited
                    /\ p \in DOMAIN values
                    /\ EngineCallsOf(p) # {}
        /\ ( /\ pc = "running"
             /\ node_queue # <<>>
             /\ Head(node_queue) \notin visited
             /\ \E p \in Range(dag.pred[Head(node_queue)]) : p \notin visited )
           => /\ node_queue' = Append(Tail(node_queue), Head(node_queue))
              /\ calls' = calls
              /\ visited' = visited ]_vars

\* C3's case: a node with an unvisited predecessor was dequeued and sits at
\* the back of the queue, not invoked.
C3_Witness ==
    /\ last.op = "requeue"
    /\ node_queue[Len(node_queue)] = last.node
    /\ Len(node_queue) > 1
    /\ EngineCallsOf(last.node) = {}

\* The links along which an invocation can come about, without those of port
\* skip of the IF/ELSE node c: the successors of a node, the connections of an
\* IF/ELSE node's output ports, the dependencies of a composite operator.
LinksAvoiding(c, skip) ==
    UNION { IF dag.opt[u].node_type = "IFELSE"
            THEN { <<u, v>> : v \in UNION { Range(dag.outputs[u][q]) :
                       q \in { r \in DOMAIN dag.outputs[u] :
                                  ~(u = c /\ r = skip) } } }
            ELSE { <<u, v>> : v \in Range(dag.adj[u])
                                     \cup Range(dag.opt[u].dep_opts) }
          : u \in Range(dag.nodes) }

\* The nodes an invocation can reach from the Start roots without passing
\* through port skip of c.
ReachAvoiding(c, skip) ==
    ReachFrom(Range(start_node_ids(dag)), LinksAvoiding(c, skip))

\* C4: given an IF/ELSE node whose condition evaluated true, no operator
\* reachable only through its false-branch port is ever invoked, and
\* symmetrically for false.
C4_UntakenBranchNeverInvoked ==
    \A c \in DOMAIN taken :
        \A i \in 1..Len(calls) :
            calls[i].node \in
                ReachAvoiding(c, IF taken[c] THEN "output_2" ELSE "output_1")

\* C4's case: a run that ended after an IF/ELSE node took its true branch,
\* invoked a node of that branch, and left a node of the false branch alone.
C4_Witness ==
    /\ pc = "done"
    /\ \E c \in DOMAIN taken :
          /\ taken[c]
          /\ DOMAIN dag.outputs[c] = {"output_1", "output_2"}
          /\ \E t \in Range(dag.outputs[c]["output_1"]) : t \in visited
          /\ \E f \in Range(dag.outputs[c]["output_2"]) :
                f \notin ReachAvoiding(c, "output_2") /\ f \notin visited

\* The edges the document declares, and the ids it makes non-participating.
ConfigEdges ==
    UNION { { <<config[n].inputs[i].node, n>> : i \in 1..Len(config[n].inputs) }
            : n \in DOMAIN config }

ConfigNonParticipating ==
    UNION { Range(config[n].elements) :
              n \in { m \in DOMAIN config : config[m].name # "CopyNode" } }

GraphEdges ==
    UNION { { <<dag.pred[n][i], n>> : i \in 1..Len(dag.pred[n]) }
            : n \in AllIds }

\* C5: a configuration whose participating subgraph contains a cycle fails
\* build with the cycle error and yields no graph; in every graph build
\* returns, the edges over participating nodes are acyclic.
C5_CycleFailsBuild ==
    /\ ( pc \notin {"load", "config"}
         /\ CycleWithin(AllIds \ ConfigNonParticipating, ConfigEdges) )
       => /\ pc = "build_error"
          /\ err = "ValueError: not a DAG"
          /\ dag = EmptyGraph
    /\ GraphReturned =>
          ~CycleWithin(Range(dag.nodes) \ dag.nodes_not_in_graph, GraphEdges)

\* C5's case: a cycle through two participating nodes, and the build failed.
C5_Witness ==
    /\ pc = "build_error"
    /\ err = "ValueError: not a DAG"
    /\ \E a, b \in DOMAIN config \ ConfigNonParticipating :
          a # b /\ <<a, b>> \in ConfigEdges /\ <<b, a>> \in ConfigEdges

\* The participating nodes of the graph without predecessors.
ParticipatingRoots ==
    { n \in Range(dag.nodes) \ dag.nodes_not_in_graph : dag.pred[n] = <<>> }

\* C6: if no participating root of the graph is a Start node, run fails with
\* the "no start node" error before any operator is invoked, whatever other
\* nodes the graph holds.
C6_NoStartNodeError ==
    ( /\ pc \in {"running", "done", "run_error"}
      /\ \A n \in ParticipatingRoots : dag.opt[n].node_type # "START" )
    => /\ pc = "run_error"
       /\ err = "ValueError: No start node found!"
       /\ calls = <<>>

\* C7: the engine never invokes the operator of a node of the
\* non-participating set; only the composite that absorbed it does.
C7_NonParticipatingNotScheduled ==
    \A i \in 1..Len(calls) :
        calls[i].by = "engine" => calls[i].node \notin dag.nodes_not_in_graph

\* C8: in a run with a Start root, every participating root that is neither
\* Start nor Model is scheduled too: by the time run returns, the engine has
\* invoked it with no input.
C8_OtherRootsScheduled ==
    pc = "done" =>
        \A n \in ParticipatingRoots :
            dag.opt[n].node_type \notin {"START", "MODEL"} =>
                \E i \in EngineCallsOf(n) : calls[i].x = PyNone

\* The sources the document declares for node n, each once, in the order of
\* their first connection.
RECURSIVE DeclaredSources(_)
DeclaredSources(conns) ==
    IF conns = <<>> THEN <<>>
    ELSE LET front == DeclaredSources(SubSeq(conns, 1, Len(conns) - 1))
             src == conns[Len(conns)].node
         IN  IF src \in Range(front) THEN front ELSE Append(front, src)

\* C9: the engine invokes a node with no input when it has no predecessor,
\* with the cached output itself of a single predecessor, and with the list
\* of the cached outputs in edge-declaration order otherwise.
C9_InputFromPredecessors ==
    \A i \in 1..Len(calls) :
        calls[i].by = "engine" =>
            LET srcs == DeclaredSources(config[calls[i].node].inputs)
            IN  /\ Range(srcs) \subseteq DOMAIN values
                /\ calls[i].x =
                      IF Len(srcs) = 0 THEN PyNone
                      ELSE IF Len(srcs) = 1 THEN values[srcs[1]]
                      ELSE PyList([j \in 1..Len(srcs) |-> values[srcs[j]]])

\* C9's case: a node invoked with the list of two outputs whose declaration
\* order is not the order of the ids.
C9_Witness ==
    \E i \in 1..Len(calls) :
        LET srcs == DeclaredSources(config[calls[i].node].inputs)
        IN  /\ calls[i].by = "engine"
            /\ Len(srcs) = 2
            /\ srcs[1] > srcs[2]
            /\ values[srcs[1]] # values[srcs[2]]
            /\ calls[i].x = PyList(<<values[srcs[1]], values[srcs[2]]>>)

\* C10: when an operator invocation raises, the traversal halts at once: run
\* ends with an error, the failing node is not marked visited and has no
\* cached output, and nothing is invoked, visited or enqueued afterwards.
C10_RaiseHaltsRun ==
    [][ /\ last'.op = "raise" =>
             /\ pc' = "run_error"
             /\ err' # ""
             /\ visited' = visited
             /\ last'.node \notin visited'
             /\ last'.node \notin DOMAIN values'
             /\ Cardinality(EngineCallsIn(calls', last'.node)) = 1
        /\ pc = "run_error" =>
             /\ pc' = "run_error"
             /\ calls' = calls
             /\ visited' = visited ]_vars

\* C10's case: an operator raised while other ids were still queued.
C10_Witness ==
    /\ pc = "run_error"
    /\ last.op = "raise"
    /\ node_queue # <<>>
    /\ EngineCallsOf(last.node) # {}
    /\ last.node \notin visited

\* The ten operator names of the vocabulary.
Vocabulary ==
    { "contains", "not contains", "start with", "end with", "equals",
      "not equals", "is empty", "is not empty", "is null", "is not null" }

\* The value a test is applied to: the content field of a message that has
\* one, the value itself otherwise.
TestedValue == ev.actual_value.content

EvalReturned(b) ==
    ev.stage = "returned" /\ ev.result = (IF b THEN "True" ELSE "False")

\* C18: `is empty` is true exactly for the empty string and None and `is not
\* empty` is its negation; `is null` is true exactly for None (false for the
\* empty string) and `is not null` is its negation; for a message the test is
\* applied to its content field.
C18_EmptyAndNullDistinct ==
    ( /\ ev.stage \in {"returned", "raised"}
      /\ ev.actual_value.msg => ev.actual_value.has_content )
    => LET empty == TestedValue \in { StrVal(<<>>), NoneVal }
           null == TestedValue = NoneVal
       IN  /\ ev.operator = "is empty" => EvalReturned(empty)
           /\ ev.operator = "is not empty" => EvalReturned(~empty)
           /\ ev.operator = "is null" => EvalReturned(null)
           /\ ev.operator = "is not null" => EvalReturned(~null)

\* `is null` on a message whose content is the empty string returned False.
C18_Witness ==
    /\ ev.stage = "returned"
    /\ ev.operator = "is null"
    /\ ev.actual_value = MsgValue(TRUE, StrVal(<<>>))
    /\ ev.result = "False"

\* C19: a call whose operator is not one of the ten vocabulary names raises
\* ValueError, whatever the value and the target.
C19_UnknownOperatorRaises ==
    ( ev.stage \in {"returned", "raised"} /\ ev.operator \notin Vocabulary )
    => ev.stage = "raised" /\ ev.result = "ValueError"

\* A differently-cased name raised although `equals` would have returned.
C19_Witness ==
    /\ ev.stage = "raised"
    /\ ev.operator = "Equals"
    /\ ev.actual_value = PlainValue(StrVal(<<"a">>))
    /\ ev.target_value = StrVal(<<"a">>)
    /\ ev.result = "ValueError"

\* C11: when an operator's invocation raises during run, the exception run
\* ends with carries the id of the node whose operator raised.
C11_ErrorCarriesNodeId ==
    (pc = "run_error" /\ last.op = "raise") => err_node = last.node

\* The build has run (to a graph or to an error).
BuildEnded == pc \notin {"load", "config", "eval", "sanitize"}

IsModelNode(n) == NODE_NAME_MAPPING[config[n].name] = "MODEL"

\* C12: in the order of the constructor calls of a build, no constructor of a
\* Model node comes after the constructor of a node that is not a Model node.
C12_ModelsConstructedFirst ==
    BuildEnded =>
        \A i, j \in 1..Len(built) :
            (i < j /\ IsModelNode(built[j].node)) => IsModelNode(built[i].node)

\* A Model node declared after two other nodes was constructed first.
C12_Witness ==
    /\ pc = "built"
    /\ Len(built) >= 3
    /\ IsModelNode(built[1].node)
    /\ \E i \in 2..Len(built) : built[i].node < built[1].node

\* C13: when a node is constructed, every id its elements list was constructed
\* before, and the constructor gets the operators of those ids in the order
\* of the list (an operator is named by the id it was constructed for).
C13_DependenciesFirstInOrder ==
    BuildEnded =>
        \A i \in 1..Len(built) :
            LET elements == config[built[i].node].elements
            IN  /\ \A k \in 1..Len(elements) :
                       \E j \in 1..(i - 1) : built[j].node = elements[k]
                /\ built[i].dep_opts = elements

\* A node whose elements list two different ids was constructed.
C13_Witness ==
    /\ pc = "built"
    /\ \E i \in 1..Len(built) :
          /\ Len(built[i].dep_opts) >= 2
          /\ built[i].dep_opts[1] # built[i].dep_opts[2]

\* The places (node, position) where elements lists name n.
ListedAt(n) ==
    { <<m, k>> \in (DOMAIN config) \X NodeIds :
          k <= Len(config[m].elements) /\ config[m].elements[k] = n }

\* C14: no node id is constructed twice in a build, and a build that returns
\* a graph has constructed every node id once.
C14_ConstructedOnce ==
    /\ BuildEnded =>
          \A i, j \in 1..Len(built) : built[i].node = built[j].node => i = j
    /\ pc = "built" =>
          \A n \in DOMAIN config : \E i \in 1..Len(built) : built[i].node = n

\* A graph was built from a document that lists one id three times, in the
\* elements of two composite nodes.
C14_Witness ==
    /\ pc = "built"
    /\ \E n \in DOMAIN config :
          /\ Cardinality(ListedAt(n)) >= 3
          /\ Cardinality({ p[1] : p \in ListedAt(n) }) >= 2

SwitchNodes == { n \in DOMAIN config : config[n].name = "SwitchPipeline" }

\* The declared case labels of Switch node n and the ids its elements list.
CasesOf(n) == config[n].args.cases

DepsOf(n) == config[n].elements

\* The errors of the check on the number of dependencies.
CountErrors == { "AssertionError", "ValueError: SwitchPipelineNode deps" }

\* C15: a Switch node with n case labels is constructed only with n
\* dependencies (then it has no default operator) or with n + 1 (then the
\* last one is its default operator); with any other number the build fails
\* in the constructor.
C15_SwitchCountNOrNPlusOne ==
    BuildEnded =>
        \A s \in SwitchNodes :
            LET n == Len(CasesOf(s))
                k == Len(DepsOf(s))
            IN  /\ (\E i \in 1..Len(built) : built[i].node = s)
                       => k \in {n, n + 1}
                /\ k \notin {n, n + 1}
                       => pc = "build_error" /\ err \in CountErrors
                /\ (pc = "built" /\ k = n)
                       => dag.opt[s].default_operators = 0
                /\ (pc = "built" /\ k = n + 1)
                       => dag.opt[s].default_operators = DepsOf(s)[k]

\* A Switch node with two labels and three dependencies was constructed.
C15_Witness ==
    /\ pc = "built"
    /\ \E s \in SwitchNodes :
          /\ Len(CasesOf(s)) = 2
          /\ Len(DepsOf(s)) = 3
          /\ dag.opt[s].default_operators = DepsOf(s)[3]

\* C16 as stated: with n case labels, n - 1 or n + 1 dependencies fail the
\* build.
C16_NMinusOneOrNPlusOneFails ==
    BuildEnded =>
        \A s \in SwitchNodes :
            Len(DepsOf(s)) \in {Len(CasesOf(s)) - 1, Len(CasesOf(s)) + 1}
                => pc = "build_error"

\* C16: with n case labels, n - 1 or n + 2 dependencies fail the build in the
\* check on their number; n + 1 dependencies pass that check, and the last
\* one is the default operator of the node constructed.
C16_NMinusOneOrNPlusTwoFails ==
    BuildEnded =>
        \A s \in SwitchNodes :
            LET n == Len(CasesOf(s))
                k == Len(DepsOf(s))
            IN  /\ k \in {n - 1, n + 2}
                       => pc = "build_error" /\ err \in CountErrors
                /\ k = n + 1 => err \notin CountErrors
                /\ (k = n + 1 /\ pc = "built")
                       => dag.opt[s].default_operators = DepsOf(s)[k]

\* The build of a Switch node with two labels and one dependency failed in
\* the check on their number.
C16_Witness ==
    /\ pc = "build_error"
    /\ err = "ValueError: SwitchPipelineNode deps"
    /\ \E s \in SwitchNodes : Len(CasesOf(s)) = 2 /\ Len(DepsOf(s)) = 1

\* The calls operators made inside call i.
InnerCalls(i) ==
    { j \in (i + 1)..Len(calls) :
          \A m \in (i + 1)..j : calls[m].by = "operator" }

\* C17: when a Switch node is invoked and the case key equals its k-th
\* declared label, the only operator invoked inside is the one of the k-th id
\* of its elements.
C17_RoutesToKthOperator ==
    \A i \in 1..Len(calls) :
        calls[i].node \in SwitchNodes =>
            \A k \in 1..Len(CasesOf(calls[i].node)) :
                CasesOf(calls[i].node)[k] = calls[i].key =>
                    /\ Cardinality(InnerCalls(i)) = 1
                    /\ \A j \in InnerCalls(i) :
                           calls[j].node = DepsOf(calls[i].node)[k]

CopyNodes == { n \in DOMAIN config : config[n].name = "CopyNode" }

\* The same reference, or two messages of equal content.
SameReferenceOrValue(v, w) ==
    \/ v = w
    \/ /\ v.k = "obj"
       /\ w.k = "obj"
       /\ heap[v.ref].content = heap[w.ref].content

\* C20: two Copy nodes of the same source, both invoked in a run, returned
\* the same reference or value.
C20_CopyReturnsSame ==
    \A c1, c2 \in CopyNodes \cap visited :
        config[c1].elements = config[c2].elements
            => SameReferenceOrValue(values[c1], values[c2])

----------------------------------------------------------------------------
(* Properties of the operators: Message, For-loop, Broadcast scope,        *)
(* If/Else pipeline, variable names, arities, the registry.                *)

\* The document is the chain Start -> Agent -> Message and nothing else.
IsStartAgentMessageChain ==
    /\ DOMAIN config = 1..3
    /\ config[1].name = "start" /\ config[1].inputs = <<>>
    /\ config[2].name \in AgentNames /\ config[2].inputs = <<From(1)>>
    /\ config[3].name = "Message" /\ config[3].inputs = <<From(2)>>

\* C21: when the run of the chain Start -> Agent -> Message has returned, the
\* engine visited Start, Agent, Message in that order and the output cached
\* for the Message node equals the output the Agent node produced.
C21_MessageRecordsAgentOutput ==
    (IsStartAgentMessageChain /\ pc = "done")
        => /\ [i \in 1..Len(calls) |-> calls[i].node] = <<1, 2, 3>>
           /\ \A i \in 1..Len(calls) : calls[i].by = "engine"
           /\ SameReferenceOrValue(values[3], values[2])

ForLoopNodes == { n \in DOMAIN config : config[n].name = "ForLoopPipeline" }

\* The positions of the operator calls made inside the pipeline invocation at
\* position i, and of the evaluations of its predicate.
NestedCalls(i) ==
    { j \in (i + 1)..Len(calls) :
          /\ calls[j].by = "operator"
          /\ \A m \in (i + 1)..j : calls[m].by \in {"operator", "predicate"} }

NestedEvaluations(i) ==
    { j \in (i + 1)..Len(calls) :
          /\ calls[j].by = "predicate"
          /\ \A m \in (i + 1)..j : calls[m].by \in {"operator", "predicate"} }

\* The content of the Msg v refers to.
ContentOf(v) == heap[v.ref].content

\* The iterations of the loop node n within the invocation at position i:
\* the calls of its body operator.
Iterations(n, i) ==
    { j \in NestedCalls(i) : calls[j].node = config[n].elements[1] }

\* C22: a For-loop node with break predicate `equals` and target T, invoked
\* by the engine and returned, made as many iterations as the first one whose
\* body output has content T (and returned that output), whatever larger
\* maximum is configured; when no iteration's output has content T it made
\* exactly max_loop iterations.
C22_ForLoopStopsAtFirstMatch ==
    \A n \in ForLoopNodes \cap visited :
        \A i \in EngineCallsOf(n) :
            LET T == config[n].args.target_value
                hits == { j \in NestedEvaluations(i) : ContentOf(calls[j].x) = T }
            IN  config[n].args.condition_op = "equals" =>
                  /\ Cardinality(Iterations(n, i)) = Cardinality(NestedEvaluations(i))
                  /\ IF hits = {}
                     THEN Cardinality(Iterations(n, i)) = config[n].args.max_loop
                     ELSE /\ Cardinality(hits) = 1
                          /\ \A j \in hits :
                                /\ \A m \in NestedEvaluations(i) : m <= j
                                /\ values[n] = calls[j].x
                                /\ Cardinality(Iterations(n, i))
                                       <= config[n].args.max_loop

\* A loop configured with two iterations stopped after the first.
C22_Witness ==
    \E n \in ForLoopNodes \cap visited :
        /\ config[n].args.max_loop = 2
        /\ \E i \in EngineCallsOf(n) :
              /\ Cardinality(Iterations(n, i)) = 1
              /\ values[n].k = "obj"
              /\ ContentOf(values[n]) = config[n].args.target_value

HubNodes == { n \in DOMAIN config : config[n].name = "MsgHub" }

\* C23: for each invocation of a Broadcast-scope node, every participant is
\* attached to the scope when the nested operator and the operators it calls
\* are invoked, and when the invocation has ended, by return or by an
\* exception, no agent is attached to a scope any more.
C23_ScopeAttachedThenDetached ==
    /\ \A a \in NodeIds : ~audience[a].attached
    /\ \A i \in 1..Len(calls) :
          calls[i].node \in HubNodes =>
              \A j \in InnerCalls(i) :
                  Range(dag.opt[calls[i].node].participants)
                      \subseteq calls[j].scope

\* The nested pipeline of a Broadcast-scope node over two agents raised in
\* its first agent, after the scope was entered.
C23_Witness ==
    /\ pc = "run_error"
    /\ \E i \in 1..Len(calls) :
          /\ calls[i].node \in HubNodes
          /\ Cardinality(Range(dag.opt[calls[i].node].participants)) = 2
          /\ Cardinality(InnerCalls(i)) = 2
          /\ i + 2 = Len(calls)
          /\ calls[i + 2].scope = Range(dag.opt[calls[i].node].participants)

\* The pairs (n, e) of the document: e is listed in n's elements.
ElementEdges ==
    UNION { { <<n, config[n].elements[i]>> :
                  i \in 1..Len(config[n].elements) } : n \in DOMAIN config }

\* Node n groups, directly or through pipelines and Copy nodes, only agents:
\* every node below it is an agent, a SequentialPipeline, or a CopyNode of
\* one source, and no node is below itself.
GroupsOnlyAgents(n) ==
    LET below == ReachFrom({n}, ElementEdges)
    IN  /\ below \subseteq DOMAIN config
        /\ ~CycleWithin(below, ElementEdges)
        /\ \A m \in below :
              \/ config[m].name \in AgentNames
              \/ config[m].name = "SequentialPipeline"
              \/ config[m].name = "CopyNode" /\ Len(config[m].elements) = 1

\* The leaf agents below node n of the document, in the order met, a Copy
\* node standing for its source.
RECURSIVE LeafAgents(_)
RECURSIVE LeafAgentsOf(_)
LeafAgents(n) ==
    IF config[n].name \in AgentNames THEN <<n>>
    ELSE LeafAgentsOf(config[n].elements)

LeafAgentsOf(elems) ==
    IF elems = <<>> THEN <<>>
    ELSE LeafAgents(Head(elems)) \o LeafAgentsOf(Tail(elems))

\* s without the later occurrences of its elements.
RECURSIVE FirstOccurrences(_)
FirstOccurrences(s) ==
    IF s = <<>> THEN <<>>
    ELSE LET rest == FirstOccurrences(SelectSeq(Tail(s),
                                                LAMBDA x : x # Head(s)))
         IN  <<Head(s)>> \o rest

\* C24: a Broadcast-scope node over one SequentialPipeline that groups only
\* agents, directly or through nested pipelines and Copy nodes of any depth,
\* is constructed, and its participant list is the leaf agents below the
\* pipeline, each once, in the order first met.
C24_ParticipantsAreLeafAgents ==
    BuildEnded =>
        \A n \in HubNodes :
            ( /\ Len(config[n].elements) = 1
              /\ config[n].elements[1] \in DOMAIN config
              /\ config[config[n].elements[1]].name = "SequentialPipeline"
              /\ GroupsOnlyAgents(config[n].elements[1]) )
            => /\ dag.opt[n].made
               /\ dag.opt[n].participants =
                      FirstOccurrences(LeafAgents(config[n].elements[1]))

\* The number of dependencies node n of the document is constructed with is
\* one its class allows.
ArityAllowed(n) ==
    LET k == Len(config[n].elements)
        name == config[n].name
    IN  CASE name \in {"MsgHub", "CopyNode", "ForLoopPipeline",
                       "WhileLoopPipeline"} -> k = 1
          [] name = "IfElsePipeline" -> k \in {1, 2}
          [] name = "SwitchPipeline" -> k >= 1
          [] OTHER -> TRUE

\* C25: when a composite node of the document has a number of dependencies
\* outside its arity (Broadcast scope, Copy, For-loop, While-loop: exactly
\* one; If/Else pipeline: one or two; Switch: at least one), the build fails
\* and returns no graph.
C25_ArityViolationFailsBuild ==
    (BuildEnded /\ \E n \in DOMAIN config : ~ArityAllowed(n))
        => /\ pc = "build_error"
           /\ err # ""
           /\ dag = EmptyGraph

\* A Broadcast-scope node with two dependencies: the build failed with the
\* node's assertion.
C25_Witness ==
    /\ pc = "build_error"
    /\ err = "AssertionError"
    /\ \E n \in HubNodes : Len(config[n].elements) = 2

\* The records of the document whose name is not registered.
UnregisteredNodes ==
    { n \in DOMAIN config : config[n].name \notin DOMAIN NODE_NAME_MAPPING }

\* C26: when a record of the document, listed as an element of a composite
\* or not, names a type the registry does not have, the build fails with the
\* error of the registry lookup and returns no graph.
C26_UnknownTypeFailsBuild ==
    (BuildEnded /\ UnregisteredNodes # {})
        => /\ pc = "build_error"
           /\ err = "KeyError"
           /\ dag = EmptyGraph

\* The build failed on a document whose unregistered record is an element of
\* a pipeline, before any constructor was called.
C26_Witness ==
    /\ pc = "build_error"
    /\ err = "KeyError"
    /\ built = <<>>
    /\ \E n \in UnregisteredNodes : \E m \in DOMAIN config :
          n \in Range(config[m].elements)

\* The node ids whose operators the build constructed.
MadeNodes == { n \in NodeIds : dag.opt[n].made }

\* C27 as stated: after a build, no two distinct node ids have operators with
\* the same variable name.
C27_VarNamesUnique ==
    GraphReturned =>
        \A n, m \in MadeNodes :
            n # m => dag.opt[n].var_name # dag.opt[m].var_name

\* C27, amended: after a build, no two distinct node ids that are not Copy
\* nodes have operators with the same variable name, and a Copy node's
\* operator has the variable name of its source.
C27_VarNamesUniqueButCopies ==
    GraphReturned =>
        /\ \A n, m \in MadeNodes :
              ( /\ n # m
                /\ dag.opt[n].name # "CopyNode"
                /\ dag.opt[m].name # "CopyNode" )
              => dag.opt[n].var_name # dag.opt[m].var_name
        /\ \A c \in MadeNodes :
              dag.opt[c].name = "CopyNode" =>
                  dag.opt[c].var_name =
                      dag.opt[dag.opt[c].dep_opts[1]].var_name

\* A graph with a Copy node of an agent and two pipeline nodes.
C27_Witness ==
    /\ GraphReturned
    /\ \E c \in MadeNodes :
          /\ dag.opt[c].name = "CopyNode"
          /\ dag.opt[c].var_name = <<"AGENT", dag.opt[c].dep_opts[1]>>
    /\ \E n, m \in MadeNodes :
          /\ n # m
          /\ dag.opt[n].node_type = "PIPELINE"
          /\ dag.opt[m].node_type = "PIPELINE"

\* The If/Else pipeline nodes of the document whose dependencies are agents.
IfElsePipelineNodes ==
    { n \in DOMAIN config :
          /\ config[n].name = "IfElsePipeline"
          /\ \A k \in 1..Len(config[n].elements) :
                /\ config[n].elements[k] \in DOMAIN config
                /\ config[config[n].elements[k]].name \in AgentNames }

\* C28: an If/Else pipeline node the engine invoked evaluated its predicate
\* once, on its input; when the predicate was true it invoked its first
\* dependency and nothing else, when it was false its second dependency and
\* nothing else, and with one dependency and a false predicate it invoked
\* nothing and returned its input.
C28_IfElsePipelineOneBranch ==
    \A i \in 1..Len(calls) :
        (calls[i].node \in IfElsePipelineNodes /\ calls[i].by = "engine") =>
            LET n == calls[i].node
                deps == config[n].elements
                inner == NestedCalls(i)
            IN  /\ NestedEvaluations(i) = {i + 1}
                /\ calls[i + 1].node = n
                /\ calls[i + 1].x = calls[i].x
                /\ calls[i + 1].key = "True" =>
                      inner = {i + 2} /\ calls[i + 2].node = deps[1]
                /\ (calls[i + 1].key = "False" /\ Len(deps) = 2) =>
                      inner = {i + 2} /\ calls[i + 2].node = deps[2]
                /\ (calls[i + 1].key = "False" /\ Len(deps) = 1) =>
                      /\ inner = {}
                      /\ n \in visited
                      /\ values[n] = calls[i].x

\* A node with one dependency whose predicate was false on an agent's output:
\* it invoked nothing and its cached output is that input.
C28_Witness ==
    \E i \in 1..Len(calls) :
        /\ calls[i].node \in IfElsePipelineNodes
        /\ calls[i].by = "engine"
        /\ Len(config[calls[i].node].elements) = 1
        /\ i + 1 = Len(calls)
        /\ calls[i + 1].key = "False"
        /\ calls[i].x.k = "obj"
        /\ values[calls[i].node] = calls[i].x

\* The nodes reached from output port p of node c along the document's edges.
BranchNodes(c, p) ==
    IF p \in DOMAIN config[c].outputs
    THEN ReachFrom(Range(config[c].outputs[p]), ConfigEdges)
    ELSE {}

\* The pairs (c, J): both output ports of the Conditional node c lead to J.
Rejoins ==
    { r \in (DOMAIN config) \X (DOMAIN config) :
          /\ config[r[1]].name = "IF/ELSE"
          /\ r[2] \in BranchNodes(r[1], "output_1")
          /\ r[2] \in BranchNodes(r[1], "output_2") }

\* The document is one Start node and nodes connected below it: nothing is
\* grouped, every connection names a node of the document, and only the Start
\* node has no connection.
ConnectedBelowStart ==
    /\ StartCount = 1
    /\ \A n \in DOMAIN config :
          /\ config[n].elements = <<>>
          /\ (config[n].inputs = <<>>) = (config[n].name = "start")
          /\ \A i \in 1..Len(config[n].inputs) :
                config[n].inputs[i].node \in DOMAIN config

\* C29: when the two branches of a Conditional node rejoin at a node J, the
\* run ends, and when it has returned after invoking the Conditional node, J
\* was invoked exactly once.
C29_RejoinTerminates ==
    (pc = "running" /\ ConnectedBelowStart /\ Rejoins # {})
        ~> ( /\ pc # "running"
             /\ pc = "done" =>
                   \A r \in Rejoins :
                       r[1] \in visited =>
                           Cardinality(EngineCallsOf(r[2])) = 1 )

\* The engine's latest step invoked the operator of an IF/ELSE node.
ConditionalInvoked ==
    /\ last.op \in {"exec", "raise", "keyerror"}
    /\ last.node \in DOMAIN dag.opt
    /\ dag.opt[last.node].node_type = "IFELSE"

\* The input of that call.
ConditionalInput == calls[Len(calls)].x

\* The Python expressions of eval_condition_operator on a list of two or
\* more outputs: `in` compares the items with the target (a Msg never equals
\* a string, None equals None), a list has no startswith or endswith, equals
\* no string and is neither falsy nor None.
ListPredicate(items, operator, target_value) ==
    LET B(b) == IF b THEN "True" ELSE "False"
        found == target_value.null
                 /\ \E i \in 1..Len(items) : items[i].k = "none"
    IN  CASE operator = "contains" -> B(found)
          [] operator = "not contains" -> B(~found)
          [] operator \in {"start with", "end with"} -> "AttributeError"
          [] operator \in {"equals", "is empty", "is null"} -> "False"
          [] operator \in {"not equals", "is not empty", "is not null"} ->
                "True"
          [] OTHER -> "ValueError"

\* The node's condition predicate on x: "True", "False" or an exception.
PredicateOn(x, opt) ==
    CASE x.k = "obj" ->
            eval_condition_operator(MsgValue(TRUE, heap[x.ref].content),
                                    opt.condition_op, opt.target_value)
      [] x.k = "none" ->
            eval_condition_operator(PlainValue(NoneVal),
                                    opt.condition_op, opt.target_value)
      [] x.k = "list" ->
            ListPredicate(x.items, opt.condition_op, opt.target_value)

\* The ids of s that are not visited are the last entries of the queue.
EnqueuedLast(s) ==
    LET new == SelectSeq(s, LAMBDA c : c \notin visited)
    IN  /\ Len(new) <= Len(node_queue)
        /\ \A i \in 1..Len(new) :
              node_queue[Len(node_queue) - Len(new) + i] = new[i]

\* The flag of the output cached for n is b, and the connections of the
\* port that b selects were enqueued.
FlagAndPort(n, b) ==
    /\ last.op = "exec"
    /\ n \in visited
    /\ values[n].k = "obj"
    /\ heap[values[n].ref].branch = b
    /\ LET port == IF b = "True" THEN "output_1" ELSE "output_2"
       IN  /\ port \in DOMAIN dag.outputs[n]
           /\ EnqueuedLast(dag.outputs[n][port])

\* C30: after the engine invokes an IF/ELSE node on x, whether x is no
\* input, a single output or a list of outputs, the node's cached output
\* carries the boolean flag that the node's predicate yields on x, and the
\* engine has enqueued the connections of output_1 when the flag is true
\* and of output_2 when it is false.
C30_FlagForEveryInput ==
    ConditionalInvoked =>
        LET n == last.node
            b == PredicateOn(ConditionalInput, dag.opt[n])
        IN  b \in {"True", "False"} => FlagAndPort(n, b)


----------------------------------------------------------------------------
(* Properties of the ready queue, of the cached outputs and of the graphs  *)
(* build returns.                                                          *)

\* The successor links of node n: the connections of its output ports for an
\* IF/ELSE node, its outgoing graph edges otherwise.
SuccessorLinks(n) ==
    IF dag.opt[n].node_type = "IFELSE"
    THEN LET ports == DOMAIN dag.outputs[n]
             at(p) == IF p \in ports THEN Len(dag.outputs[n][p]) ELSE 0
         IN  at("output_1") + at("output_2")
    ELSE Len(dag.adj[n])

RECURSIVE LinksOf(_)
LinksOf(S) ==
    IF S = {} THEN 0
    ELSE LET n == CHOOSE x \in S : TRUE
         IN  SuccessorLinks(n) + LinksOf(S \ {n})

\* The queue is no longer than the Start roots and the successor links of the
\* visited nodes together.
QueueBounded ==
    pc = "running" =>
        Len(node_queue) <= Len(start_node_ids(dag)) + LinksOf(visited)

\* A step that puts a not-ready node back does not lengthen the queue.
RequeueKeepsLength ==
    last'.op = "requeue" => Len(node_queue') <= Len(node_queue)

\* C31: during run the ready queue's length never exceeds the number of
\* Start roots plus the number of successor links (graph edges, and the
\* output connections of IF/ELSE nodes) of the nodes visited so far, and
\* re-enqueueing a node that is not ready never increases the length.
C31_QueueLengthBounded == [](QueueBounded) /\ [][RequeueKeepsLength]_vars

\* A node was put back while another id waited behind it.
C31_Witness ==
    /\ last.op = "requeue"
    /\ Len(node_queue) >= 2

\* The objects a value refers to: the Msg itself, or the Msgs of a list.
RECURSIVE RefsOf(_)
RefsOf(v) ==
    IF v.k = "obj" THEN {v.ref}
    ELSE IF v.k = "list"
    THEN UNION { RefsOf(v.items[i]) : i \in 1..Len(v.items) }
    ELSE {}

\* The output cached for m is after the step what it was before: the same
\* value, referring to objects with the same fields.
OutputKept(m) ==
    /\ m \in DOMAIN values'
    /\ values'[m] = values[m]
    /\ \A ref \in RefsOf(values[m]) : heap'[ref] = heap[ref]

\* C32: invoking a node's operator during run leaves the cached outputs of
\* all other nodes unchanged; an IF/ELSE node in particular does not alter
\* the output object cached for its predecessor.
C32_OtherOutputsUnchanged ==
    [][ (pc = "running" /\ last'.op \in {"exec", "raise", "keyerror"}) =>
            \A m \in visited \ {last'.node} : OutputKept(m) ]_vars

\* C33: every node id of a graph build returned, the endpoints of its edges
\* included, is the id of a configuration entry and has a constructed
\* operator attached: a connection naming an id the configuration lacks
\* never leaves a node without operator in a returned graph.
C33_EveryNodeHasOperator ==
    GraphReturned =>
        /\ \A e \in GraphEdges : e[1] \in Range(dag.nodes)
                                 /\ e[2] \in Range(dag.nodes)
        /\ \A n \in Range(dag.nodes) :
              n \in DOMAIN config /\ dag.opt[n].made

\* C34: after build the non-participating set is the union of the elements
\* lists of the configuration's nodes that are not Copy nodes (a Copy node
\* does not make its source non-participating), and during build the set
\* only grows: each constructor call sees a set that contains the set the
\* calls before it saw, and the returned graph's set contains them all.
C34_NonParticipatingIsUnionOfElements ==
    /\ \A i, j \in 1..Len(built) :
          i < j => built[i].not_in_graph \subseteq built[j].not_in_graph
    /\ GraphReturned =>
          /\ dag.nodes_not_in_graph = ConfigNonParticipating
          /\ \A i \in 1..Len(built) :
                built[i].not_in_graph \subseteq dag.nodes_not_in_graph

\* A graph was built from a document with a group and with a Copy node whose
\* source is in no group: the source participates, the group's elements do
\* not.
C34_Witness ==
    /\ GraphReturned
    /\ dag.nodes_not_in_graph # {}
    /\ \E n \in CopyNodes :
          /\ config[n].elements # <<>>
          /\ Range(config[n].elements) \cap dag.nodes_not_in_graph = {}

\* The exceptions build raises by a statement of its own: a failed lookup of
\* a node name or of a dependency id, a failed assertion or count check of a
\* constructor, the TypeError of get_all_agents, and the cycle error.
StructuralErrors ==
    { "KeyError", "AssertionError", "TypeError",
      "ValueError: SwitchPipelineNode deps", "ValueError: not a DAG" }

\* C35: build terminates for every finite configuration, returning a graph
\* or failing with a structural error, also when elements references form a
\* cycle: it never ends because the nested calls of add_as_node exhausted
\* the call stack.
C35_BuildTerminates ==
    pc = "build_error" => err \in StructuralErrors

\* The arguments the operator of node n was constructed with in graph g.
OperatorArgs(g, n) ==
    [condition_op |-> g.opt[n].condition_op,
     target_value |-> g.opt[n].target_value,
     max_loop |-> g.opt[n].max_loop,
     case_operators |-> g.opt[n].case_operators,
     default_operators |-> g.opt[n].default_operators]

\* C36: build is repeatable: a second call on the same config object returns
\* a graph with the same nodes, edges, non-participating set and operator
\* arguments as the first (the first call consumes no argument, such as
\* condition_op, target_value or cases, that the second one needs).
C36_BuildRepeatable ==
    pc = "rebuilt" =>
        /\ rebuilt.ok
        /\ Range(rebuilt.g.nodes) = Range(dag.nodes)
        /\ rebuilt.g.pred = dag.pred
        /\ rebuilt.g.adj = dag.adj
        /\ rebuilt.g.nodes_not_in_graph = dag.nodes_not_in_graph
        /\ \A n \in Range(dag.nodes) :
              OperatorArgs(rebuilt.g, n) = OperatorArgs(dag, n)

\* data.args of a record as a dict: {} when data has no args.
ArgsOf(r) == IF r.has_args THEN r.args ELSE EmptyDict

\* The record d is a normalization of the record r.
Normalized(r, d) ==
    /\ \A k \in DOMAIN ArgsOf(d) : ArgsOf(d)[k] # StrVal(<<>>)
    /\ DOMAIN ArgsOf(d) =
          { k \in DOMAIN ArgsOf(r) : ArgsOf(r)[k] # StrVal(<<>>) }
    /\ \A k \in DOMAIN ArgsOf(d) : ArgsOf(d)[k] = ArgsOf(r)[k]
    /\ d.has_args = r.has_args
    /\ d.has_source
    /\ DOMAIN d.source = DOMAIN ArgsOf(d)
    /\ \A k \in DOMAIN d.source : d.source[k] = ArgsOf(d)[k]

ConditionalNodes ==
    { n \in Range(dag.nodes) : dag.opt[n].node_type = "IFELSE" }

\* C38: every IF/ELSE node of a graph build returned has exactly two output
\* ports, output_1 (the true branch) and output_2 (the false branch).
C38_ConditionalHasTwoPorts ==
    GraphReturned =>
        \A n \in ConditionalNodes :
            DOMAIN dag.outputs[n] = {"output_1", "output_2"}

\* A call of a Code node whose execution succeeded and printed a text
\* without a pair of result delimiters.
MalformedResult(i) ==
    /\ dag.opt[calls[i].node].name = "Code"
    /\ calls[i].out.status = "SUCCESS"
    /\ \A j, k \in 1..Len(calls[i].out.content) :
           /\ j < k
           /\ calls[i].out.content[j] = "<<RESULT>>"
           => calls[i].out.content[k] # "<<RESULT>>"

====
